---- MODULE Spec2Model ----
(***************************************************************************)
(* Model of data_structures/file_parser.py: TokenParser compiles a line    *)
(* pattern into tokens and separators and decodes lines with it;           *)
(* FileParser reads a file line by line and decodes it with a TokenParser. *)
(*                                                                         *)
(* Text is a sequence of one-character strings, so that the scanning loops *)
(* of the source can be followed index by index.  Indices are 0-based as   *)
(* in the source; At and Slice translate them.                             *)
(***************************************************************************)
EXTENDS Integers, Sequences, FiniteSets, TLC

VARIABLES
    line_pattern,   \* argument of TokenParser.__init__
    sep,            \* argument of TokenParser.__init__ (global separator)
    data_types,     \* argument of TokenParser.__init__ (<<>> for None or [])
    tokens,         \* self.tokens: sequence of [token_name, token_type]
    separators,     \* self.separators
    created_ids,    \* self.created_ids
    pc,             \* "new" | "ready" | "failed" (constructor raised)
    line,           \* argument of the last TokenParser.parse call
    out,            \* outcome of the last TokenParser.parse call
    prev_out,       \* outcome of the call before the last one
    calls,          \* number of TokenParser.parse calls made so far
    file,           \* the lines of the file given to FileParser.__init__
    has_header,     \* argument of FileParser.__init__
    comment,        \* argument of FileParser.__init__
    pos,            \* number of lines read from the file so far
    _comments,      \* self._comments
    _header,        \* self._header
    _size,          \* self._size
    pulls,          \* outcomes of the next(parser) calls made so far
    collected,      \* outcome of parser.collect(), and the number of
                    \* pulls made before it
    _file,          \* self._file: "path", or "open" for an open handle
    init_raised,    \* what FileParser.__init__ raised
    iters,          \* number of iter(parser) calls made so far
    decorator,      \* parallel_iter: "iter_threaded" or "iter_async"
    threads,        \* argument of iter_threaded
    ignore_types,   \* argument of iter_threaded, then the set built from it
    kwargs,         \* keyword sequences given to the decorator, in order
    func,           \* the decorated function
    gen,            \* how far decoration and iteration have come
    futures,        \* output_data_futures: the calls and their states
    finished,       \* the futures in the order in which they finished
    cursor,         \* the future the loop of the generator looks at next
    yielded,        \* the results handed to the consumer so far
    iter_raised,    \* what decoration or iteration raised
    _cache,         \* TypeChecker._cache
    _max_cache_size,\* TypeChecker._max_cache_size
    frames,         \* the decorated calls whose function body is running
    tc_out,         \* the last operation on TypeChecker and its outcome
    heap,           \* the Str objects made so far, each with _data and _const
    str_out,        \* the last operation on a Str and its outcome
    nops            \* number of operations made on Str objects

file_vars == <<file, has_header, comment, pos, _comments, _header, _size,
               pulls, collected, _file, init_raised, iters>>

iter_vars == <<decorator, threads, ignore_types, kwargs, func, gen, futures,
               finished, cursor, yielded, iter_raised>>

\* the variables of the modules other than file_parser
tc_vars == <<_cache, _max_cache_size, frames, tc_out>>

str_vars == <<heap, str_out, nops>>

rest_vars == <<iter_vars, tc_vars, str_vars>>

vars == <<line_pattern, sep, data_types, tokens, separators, created_ids, pc,
          line, out, prev_out, calls, file_vars, rest_vars>>

----------------------------------------------------------------------------
(* Bounds of the explored input space *)

MaxDecls == 2
MaxLineLen == 3
MaxCalls == 2
MaxTypes == 2
MaxFileLines == 3
MaxPulls == 4
MaxIters == 1

----------------------------------------------------------------------------
(* Text helpers: Python indexing and slicing *)

At(s, i) == s[i + 1]

Slice(s, a, b) == SubSeq(s, a + 1, b)

\* while i < len(s) and s[i] not in stops: i += 1
RECURSIVE ScanTo(_, _, _)
ScanTo(s, i, stops) ==
    IF i < Len(s) /\ At(s, i) \notin stops
    THEN ScanTo(s, i + 1, stops)
    ELSE i

\* str.rstrip(chars)
RECURSIVE RStrip(_, _)
RStrip(s, chars) ==
    IF Len(s) > 0 /\ s[Len(s)] \in chars
    THEN RStrip(SubSeq(s, 1, Len(s) - 1), chars)
    ELSE s

RECURSIVE LStrip(_, _)
LStrip(s, chars) ==
    IF Len(s) > 0 /\ s[1] \in chars
    THEN LStrip(Tail(s), chars)
    ELSE s

----------------------------------------------------------------------------
(* TokenParser.Token *)

EXP_START == "$"
TYPE_START == ":"
SEP == "|"
SEP_INT == "'"

----------------------------------------------------------------------------
(* Converters reachable by name: the builtins int, float, str and bytes    *)
(* applied to a str.  A conversion returns a value or raises.              *)

Whitespace == {" ", "\t", "\n", "\r"}
Signs == {"+", "-"}
Digits == {"0", "1", "2", "3", "4", "5", "6", "7", "8", "9"}

DigitVal(c) ==
    CASE c = "0" -> 0 [] c = "1" -> 1 [] c = "2" -> 2 [] c = "3" -> 3
      [] c = "4" -> 4 [] c = "5" -> 5 [] c = "6" -> 6 [] c = "7" -> 7
      [] c = "8" -> 8 [] c = "9" -> 9

RECURSIVE Decimal(_)
Decimal(ds) ==
    IF ds = <<>> THEN 0
    ELSE 10 * Decimal(SubSeq(ds, 1, Len(ds) - 1)) + DigitVal(ds[Len(ds)])

AllIn(s, chars) == \A k \in 1..Len(s) : s[k] \in chars

Returned(v) == [raised |-> "none", val |-> v]
RaisedExc(e) == [raised |-> e, val |-> [t |-> "none"]]

\* int(text): surrounding whitespace ignored, optional sign, decimal digits
ConvInt(text) ==
    LET body == RStrip(LStrip(text, Whitespace), Whitespace)
        signed == Len(body) > 0 /\ body[1] \in Signs
        ds == IF signed THEN Tail(body) ELSE body
        mag == Decimal(ds)
    IN  IF Len(ds) > 0 /\ AllIn(ds, Digits)
        THEN Returned([t |-> "int",
                       n |-> IF signed /\ body[1] = "-" THEN 0 - mag ELSE mag])
        ELSE RaisedExc("ValueError")

\* A float value is kept as mantissa m and a count e of decimal places,
\* without trailing zero places: 1.0, 1. and 1 are the same float.
RECURSIVE NormFloat(_, _)
NormFloat(m, e) ==
    IF e > 0 /\ m % 10 = 0 THEN NormFloat(m \div 10, e - 1)
    ELSE [t |-> "float", m |-> m, e |-> e]

\* float(text): surrounding whitespace ignored, optional sign, digits with
\* at most one point and at least one digit
ConvFloat(text) ==
    LET body == RStrip(LStrip(text, Whitespace), Whitespace)
        signed == Len(body) > 0 /\ body[1] \in Signs
        num == IF signed THEN Tail(body) ELSE body
        dot == ScanTo(num, 0, {"."})
        whole == Slice(num, 0, dot)
        frac == Slice(num, dot + 1, Len(num))
        mag == Decimal(whole \o frac)
        val == NormFloat(mag, Len(frac))
    IN  IF Len(whole) + Len(frac) > 0 /\ AllIn(whole, Digits) /\ AllIn(frac, Digits)
        THEN Returned(IF signed /\ body[1] = "-"
                      THEN [val EXCEPT !.m = 0 - val.m] ELSE val)
        ELSE RaisedExc("ValueError")

\* str(text)
ConvStr(text) == Returned([t |-> "str", s |-> text])

\* bytes(text): "string argument without an encoding"
ConvBytes(text) == RaisedExc("TypeError")

\* a caller's class id called with the text: an object of that class
\* holding the text
ConvUser(id, text) == Returned([t |-> id, value |-> text])

Convert(token_type, text) ==
    CASE token_type = "int" -> ConvInt(text)
      [] token_type = "float" -> ConvFloat(text)
      [] token_type = "str" -> ConvStr(text)
      [] token_type = "bytes" -> ConvBytes(text)
      [] OTHER -> ConvUser(token_type, text)

\* the entries of __builtins__ that the patterns name
__builtins__ ==
    (<<"i", "n", "t">> :> "int") @@
    (<<"f", "l", "o", "a", "t">> :> "float") @@
    (<<"s", "t", "r">> :> "str") @@
    (<<"b", "y", "t", "e", "s">> :> "bytes")

\* {val.__name__: val for val in data_types}: a caller's converter is a
\* record [name, id]; of two with one name the later one stays
ByName(dts) ==
    [n \in {dts[k].name : k \in DOMAIN dts} |->
        LET last == CHOOSE k \in DOMAIN dts :
                        /\ dts[k].name = n
                        /\ \A j \in DOMAIN dts : dts[j].name = n => j <= k
        IN  dts[last].id]

\* self.user_data_types after __init__: the caller's converters by name,
\* then update(__builtins__), which replaces the entries it has a key for
user_data_types(dts) == __builtins__ @@ ByName(dts)

----------------------------------------------------------------------------
(* TokenParser: compiling the line pattern *)

NewParser(dts) ==
    [tokens |-> <<>>, separators |-> <<>>, created_ids |-> {},
     user_data_types |-> user_data_types(dts), raised |-> "none"]

\* ParsedToken(token_name, token_type)
ParsedToken(token_name, token_type) ==
    [token_name |-> token_name, token_type |-> token_type]

\* Variant of StoreSeparator that never looks whether the pattern goes on
\* after the declaration: the trailing field gets a separator as well.
StoreSeparatorAlways(seps, pattern, sep_val, i, gsep) ==
    IF sep_val < Len(pattern) /\ At(pattern, sep_val) = SEP_INT /\ i < Len(pattern)
    THEN Append(seps, At(pattern, sep_val + 1))
    ELSE Append(seps, gsep)

\* Variant of StoreSeparator that records the global separator whatever
\* marker ended the type name.
StoreSeparatorGlobal(seps, pattern, sep_val, i, gsep) ==
    IF i < Len(pattern) THEN Append(seps, gsep) ELSE seps

\* "Store separator character in queue": the end of _parse_standard_token,
\* with i the position reached and sep_val the position of the marker
StoreSeparator(seps, pattern, sep_val, i, gsep) ==
    IF i < Len(pattern)
    THEN IF At(pattern, sep_val) = SEP_INT
         THEN Append(seps, At(pattern, sep_val + 1))
         ELSE Append(seps, gsep)
    ELSE seps

\* Variant of _parse_standard_token that does not look the name up in
\* created_ids.
_parse_standard_token_any_name(self, pattern, i0, gsep) ==
    IF At(pattern, i0) # EXP_START THEN self
    ELSE
    LET name_start_pos == i0 + 1
        name_end_pos == ScanTo(pattern, name_start_pos, {TYPE_START})
        token_name == Slice(pattern, name_start_pos, name_end_pos)
        type_start_pos == name_end_pos + 1
        type_end_pos == ScanTo(pattern, type_start_pos, {SEP, SEP_INT})
        sep_val == type_end_pos
        i == IF sep_val < Len(pattern) /\ At(pattern, sep_val) = SEP_INT
             THEN sep_val + 1 ELSE sep_val
        type_name == Slice(pattern, type_start_pos, type_end_pos)
        named == [self EXCEPT !.created_ids = @ \cup {token_name}]
    IN  IF type_name \notin DOMAIN self.user_data_types
        THEN [named EXCEPT !.raised = "ParsePatternFail"]
        ELSE [named EXCEPT
                !.tokens = Append(@, ParsedToken(token_name,
                                                 self.user_data_types[type_name])),
                !.separators = StoreSeparator(@, pattern, sep_val, i, gsep)]

\* Variant of _parse_standard_token that falls back to str when the type
\* name is not registered.
_parse_standard_token_default_str(self, pattern, i0, gsep) ==
    IF At(pattern, i0) # EXP_START THEN self
    ELSE
    LET name_start_pos == i0 + 1
        name_end_pos == ScanTo(pattern, name_start_pos, {TYPE_START})
        token_name == Slice(pattern, name_start_pos, name_end_pos)
        type_start_pos == name_end_pos + 1
        type_end_pos == ScanTo(pattern, type_start_pos, {SEP, SEP_INT})
        sep_val == type_end_pos
        i == IF sep_val < Len(pattern) /\ At(pattern, sep_val) = SEP_INT
             THEN sep_val + 1 ELSE sep_val
        type_name == Slice(pattern, type_start_pos, type_end_pos)
        named == [self EXCEPT !.created_ids = @ \cup {token_name}]
    IN  IF token_name \in self.created_ids
        THEN [self EXCEPT !.raised = "ParsePatternFail"]
        ELSE [named EXCEPT
                !.tokens = Append(@, ParsedToken(token_name,
                                     IF type_name \in DOMAIN self.user_data_types
                                     THEN self.user_data_types[type_name]
                                     ELSE "str")),
                !.separators = StoreSeparator(@, pattern, sep_val, i, gsep)]

\* TokenParser._parse_standard_token(line_pattern, i, sep)
_parse_standard_token(self, pattern, i0, gsep) ==
    IF At(pattern, i0) # EXP_START THEN self
    ELSE
    LET name_start_pos == i0 + 1
        name_end_pos == ScanTo(pattern, name_start_pos, {TYPE_START})
        token_name == Slice(pattern, name_start_pos, name_end_pos)
        type_start_pos == name_end_pos + 1
        type_end_pos == ScanTo(pattern, type_start_pos, {SEP, SEP_INT})
        sep_val == type_end_pos
        i == IF sep_val < Len(pattern) /\ At(pattern, sep_val) = SEP_INT
             THEN sep_val + 1 ELSE sep_val
        type_name == Slice(pattern, type_start_pos, type_end_pos)
        named == [self EXCEPT !.created_ids = @ \cup {token_name}]
    IN  IF token_name \in self.created_ids
        THEN [self EXCEPT !.raised = "ParsePatternFail"]
        ELSE IF type_name \notin DOMAIN self.user_data_types
        THEN [named EXCEPT !.raised = "ParsePatternFail"]
        ELSE [named EXCEPT
                !.tokens = Append(@, ParsedToken(token_name,
                                                 self.user_data_types[type_name])),
                !.separators = StoreSeparator(@, pattern, sep_val, i, gsep)]

\* TokenParser.has_pattern
has_pattern(self) == Len(self.tokens) > 0

\* the while loop of TokenParser._parse_line_pattern, from position i
RECURSIVE PatternLoop(_, _, _, _)
PatternLoop(self, pattern, i, gsep) ==
    IF i < Len(pattern)
    THEN LET next == _parse_standard_token(self, pattern, i, gsep)
         IN  IF next.raised # "none" THEN next
             ELSE PatternLoop(next, pattern, i + 1, gsep)
    ELSE self

\* Variant of _parse_line_pattern that does not ask has_pattern.
_parse_line_pattern_unchecked(self, pattern, gsep) ==
    PatternLoop(self, pattern, 0, gsep)

\* TokenParser._parse_line_pattern(line_pattern, sep)
_parse_line_pattern(self, pattern, gsep) ==
    LET done == PatternLoop(self, pattern, 0, gsep)
    IN  IF done.raised = "none" /\ ~has_pattern(done)
        THEN [done EXCEPT !.raised = "ParsePatternFail"]
        ELSE done

----------------------------------------------------------------------------
(* TokenParser: decoding a line *)

EmptyDict == [k \in {} |-> [t |-> "none"]]

NotCalled == [raised |-> "not called", ret |-> EmptyDict]

Raise(e) == [raised |-> e, ret |-> EmptyDict]

\* Variant of _try_parse that stores the raw text without calling the
\* field's converter.
_try_parse_raw(self, dict, tokens_pos, text) ==
    IF tokens_pos >= Len(self.tokens) THEN Raise("IndexError")
    ELSE [raised |-> "none",
          ret |-> (At(self.tokens, tokens_pos).token_name
                      :> [t |-> "str", s |-> text]) @@ dict]

\* Variant of _try_parse that lets the converter's ValueError through.
_try_parse_unwrapped(self, dict, tokens_pos, text) ==
    IF tokens_pos >= Len(self.tokens) THEN Raise("IndexError")
    ELSE LET tok == At(self.tokens, tokens_pos)
             conv == Convert(tok.token_type, text)
         IN  IF conv.raised = "none"
             THEN [raised |-> "none",
                   ret |-> (tok.token_name :> conv.val) @@ dict]
             ELSE Raise(conv.raised)

\* TokenParser._try_parse(out, tokens_pos, line): the dict after the
\* assignment, or the exception that leaves the method
_try_parse(self, dict, tokens_pos, text) ==
    IF tokens_pos >= Len(self.tokens) THEN Raise("IndexError")
    ELSE LET tok == At(self.tokens, tokens_pos)
             conv == Convert(tok.token_type, text)
         IN  IF conv.raised = "none"
             THEN [raised |-> "none",
                   ret |-> (tok.token_name :> conv.val) @@ dict]
             ELSE IF conv.raised = "ValueError"
             THEN Raise("ParseLineFail")
             ELSE Raise(conv.raised)

\* the while loop of TokenParser.parse and the statements after it
RECURSIVE ParseLoop(_, _, _, _, _, _)
ParseLoop(self, text, i, sep_pos, tokens_pos, dict) ==
    IF sep_pos < Len(self.separators) /\ i < Len(text)
    THEN LET start_pos == i
             j == ScanTo(text, i, {At(self.separators, sep_pos)})
             found == j < Len(text)
             step == IF found
                     THEN _try_parse(self, dict, tokens_pos,
                                     Slice(text, start_pos, j))
                     ELSE [raised |-> "none", ret |-> dict]
         IN  IF step.raised # "none" THEN step
             ELSE ParseLoop(self, text, j + 1, sep_pos + 1,
                            IF found THEN tokens_pos + 1 ELSE tokens_pos,
                            step.ret)
    ELSE _try_parse(self, dict, tokens_pos, Slice(text, i, Len(text)))

\* TokenParser.parse(line)
parse(self, text) ==
    ParseLoop(self, RStrip(text, {"\r", "\n"}), 0, 0, 0, EmptyDict)

----------------------------------------------------------------------------
(* Inputs *)

TInt == <<"i", "n", "t">>
TFloat == <<"f", "l", "o", "a", "t">>
TStr == <<"s", "t", "r">>
TBytes == <<"b", "y", "t", "e", "s">>
TVroom == <<"v", "r", "o", "o", "m">>

FieldNames == {<<"a">>, <<"b">>}
TypeNames == {TFloat, TStr, TVroom}
Terminators == {<<>>, <<SEP>>, <<SEP_INT, "-">>, <<SEP_INT>>}

\* one declaration $name:type followed by what ends its type name
Decl(name, type, term) == <<EXP_START>> \o name \o <<TYPE_START>> \o type \o term

Decls == {Decl(n, ty, tm) : n \in FieldNames, ty \in TypeNames, tm \in Terminators}

RECURSIVE DeclPatterns(_)
DeclPatterns(n) ==
    IF n = 0 THEN {<<>>}
    ELSE LET shorter == DeclPatterns(n - 1)
         IN  shorter \cup {p \o d : p \in shorter, d \in Decls}

\* patterns of the test suite and of the class documentation
PatThreeFields == <<"$", "v", "a", "l", ":", "f", "l", "o", "a", "t", "|", "$", "v", "a", "l", "2", ":", "i", "n", "t", "|", "$", "v", "a", "l", "3", ":", "s", "t", "r">>
PatOneField == <<"$", "v", "a", "l", ":", "f", "l", "o", "a", "t">>
PatTwoFields == <<"$", "v", "a", "l", ":", "f", "l", "o", "a", "t", "|", "$", "v", "a", "l", "2", ":", "i", "n", "t">>
PatInternalSep == <<"$", "v", "a", "l", ":", "s", "t", "r", "'", "-", "$", "v", "a", "l", "u", "e", ":", "f", "l", "o", "a", "t", "|", "$", "v", "a", "l", "2", ":", "s", "t", "r", "'", "-", "$", "v", "a", "l", "u", "e", "2", ":", "f", "l", "o", "a", "t">>
PatInternalSepShort == <<"$", "v", "a", "l", ":", "s", "t", "r", "'", "-", "$", "v", "a", "l", "u", "e", ":", "f", "l", "o", "a", "t">>
PatMissingExpStart == <<"v", "a", "l", ":", "f", "l", "o", "a", "t">>
PatMissingTypeStart == <<"$", "v", "a", "l", "f", "l", "o", "a", "t">>
PatInvalidType == <<"$", "v", "a", "l", ":", "v", "r", "o", "o", "m">>
\* the test writes a backquote where this pattern has ^; either is a character
\* that is no marker, and a TLA+ string cannot hold a backquote
PatInvalidSepInt == <<"$", "v", "a", "l", ":", "i", "n", "t", "^", "_", "|", "$", "v", "a", "l", "2", ":", "i", "n", "t">>
PatRepeatedName == <<"$", "v", "a", "l", ":", "i", "n", "t", "|", "$", "v", "a", "l", ":", "f", "l", "o", "a", "t">>

\* further patterns: a field start inside a name, text after the last
\* separator marker, and the builtins int and bytes as field types
PatNestedStart == <<"$", "a", "$", "b", ":", "i", "n", "t">>
PatTextAfterSep == <<"$", "a", ":", "i", "n", "t", "|", "b">>
PatBytesField == <<"$", "a", ":", "b", "y", "t", "e", "s">>
PatBytesSecond == <<"$", "a", ":", "i", "n", "t", "|", "$", "b", ":", "b", "y", "t", "e", "s">>
PatIntStr == <<"$", "a", ":", "i", "n", "t", "|", "$", "b", ":", "s", "t", "r">>

\* the same name declared twice with another declaration in between
PatRepeatedApart == <<"$", "a", ":", "i", "n", "t", "|", "$", "b", ":", "s", "t", "r", "|", "$", "a", ":", "s", "t", "r">>

TestPatterns ==
    {PatThreeFields, PatOneField, PatTwoFields, PatInternalSep,
     PatInternalSepShort, PatMissingExpStart, PatMissingTypeStart,
     PatInvalidType, PatInvalidSepInt, PatRepeatedName, PatNestedStart,
     PatTextAfterSep, PatBytesField, PatBytesSecond, PatIntStr,
     PatRepeatedApart}

Patterns == DeclPatterns(MaxDecls) \cup TestPatterns

GlobalSeps == {"\t", "-"}

LineChars == {"1", ".", "\t", "-", "\n"}

RECURSIVE TextsUpTo(_, _)
TextsUpTo(chars, n) ==
    IF n = 0 THEN {<<>>}
    ELSE LET shorter == TextsUpTo(chars, n - 1)
         IN  shorter \cup {Append(s, c) : s \in shorter, c \in chars}

\* lines of the test suite
LineProper == <<"1", ".", "0", "\t", "2", "\t", "3">>
LineTypeMismatch == <<"1", ".", "0", "\t", "1", ".", "0", "\t", "1", ".", "0">>
LineWrongSep == <<"1", ".", "0", ",", "1", ".", "0", ",", "1", ".", "0">>
LineInternalSep == <<"s", "e", "p", "-", "1", ".", "0", "\t", "s", "e", "p", "-", "2", ".", "0">>
LineMissingSepInt == <<"s", "e", "p", "1", ".", "0", "\t", "s", "e", "p", "-", "2", ".", "0">>
LineWrongSepInt == <<"s", "e", "p", "_", "1", ".", "0", "\t", "s", "e", "p", "-", "2", ".", "0">>
LineInternalSepShort == <<"s", "e", "p", "-", "1", ".", "0">>

TestLines ==
    {LineProper, LineTypeMismatch, LineWrongSep, LineInternalSep,
     LineMissingSepInt, LineWrongSepInt, LineInternalSepShort}

Lines == TextsUpTo(LineChars, MaxLineLen) \cup TestLines

----------------------------------------------------------------------------
(* The state machine: one TokenParser is constructed from a pattern and a  *)
(* separator, then decodes a line, and decodes that same line again.       *)

Self == [tokens |-> tokens, separators |-> separators,
         created_ids |-> created_ids,
         user_data_types |-> user_data_types(data_types), raised |-> "none"]

\* a state in which no decorator of parallel_iter is involved
NoIter ==
    /\ decorator = "iter_threaded"
    /\ threads = 1
    /\ ignore_types = {}
    /\ kwargs = <<>>
    /\ func = "out"
    /\ gen = "idle"
    /\ futures = <<>>
    /\ finished = <<>>
    /\ cursor = 1
    /\ yielded = <<>>
    /\ iter_raised = "none"

\* TypeChecker as the class statement leaves it
NoTypeChecker ==
    /\ _cache = {}
    /\ _max_cache_size = 256
    /\ frames = <<>>
    /\ tc_out = [op |-> "none", raised |-> "none", valid |-> TRUE, hit |-> FALSE]

\* a state in which no Str has been made
NoStr ==
    /\ heap = <<>>
    /\ str_out = [op |-> "none", self |-> 0, raised |-> "none",
                  ret |-> [t |-> "None"]]
    /\ nops = 0

\* a state in which only file_parser is involved
Idle == NoIter /\ NoTypeChecker /\ NoStr

\* a state in which no FileParser is involved
NoFile ==
    /\ file = <<>>
    /\ has_header = FALSE
    /\ comment = <<>>
    /\ pos = 0
    /\ _comments = <<>>
    /\ _header = <<>>
    /\ _size = 0
    /\ pulls = <<>>
    /\ collected = NotCalled
    /\ _file = "path"
    /\ init_raised = "none"
    /\ iters = 0

Init ==
    /\ line_pattern \in Patterns
    /\ sep \in GlobalSeps
    /\ data_types = <<>>
    /\ tokens = <<>>
    /\ separators = <<>>
    /\ created_ids = {}
    /\ pc = "new"
    /\ line = <<>>
    /\ out = NotCalled
    /\ prev_out = NotCalled
    /\ calls = 0
    /\ NoFile
    /\ Idle

\* TokenParser.__init__(line_pattern, sep, data_types)
Construct ==
    /\ pc = "new"
    /\ LET built == _parse_line_pattern(NewParser(data_types), line_pattern, sep)
       IN  /\ tokens' = built.tokens
           /\ separators' = built.separators
           /\ created_ids' = built.created_ids
           /\ pc' = IF built.raised = "none" THEN "ready" ELSE "failed"
    /\ UNCHANGED rest_vars
    /\ UNCHANGED <<line_pattern, sep, data_types, line, out, prev_out, calls,
                   file_vars>>

\* Variant of Parse that uses the separators as a stack and pops the first
\* one while decoding.
ParsePopping ==
    /\ pc = "ready"
    /\ calls < MaxCalls
    /\ \E text \in (IF calls = 0 THEN Lines ELSE {line}) :
          /\ line' = text
          /\ out' = parse(Self, text)
          /\ prev_out' = out
          /\ calls' = calls + 1
    /\ separators' = IF separators = <<>> THEN separators ELSE Tail(separators)
    /\ UNCHANGED rest_vars
    /\ UNCHANGED <<line_pattern, sep, data_types, tokens, created_ids, pc,
                   file_vars>>

\* TokenParser.parse(line)
Parse ==
    /\ pc = "ready"
    /\ calls < MaxCalls
    /\ \E text \in (IF calls = 0 THEN Lines ELSE {line}) :
          /\ line' = text
          /\ out' = parse(Self, text)
          /\ prev_out' = out
          /\ calls' = calls + 1
    /\ UNCHANGED rest_vars
    /\ UNCHANGED <<line_pattern, sep, data_types, tokens, separators,
                   created_ids, pc, file_vars>>

Next == Construct \/ Parse

Spec == Init /\ [][Next]_vars

----------------------------------------------------------------------------
(* A TokenParser constructed with converters of the caller *)

TUserStr == <<"S", "t", "r">>

\* classes of the caller: the class Str of the test suite, a second class
\* of that name, and a class whose __name__ is that of the builtin int
ClassStr == [name |-> TUserStr, id |-> "test.Str"]
ClassStrOther == [name |-> TUserStr, id |-> "other.Str"]
ClassInt == [name |-> TInt, id |-> "caller.int"]

Classes == {ClassStr, ClassStrOther, ClassInt}

RECURSIVE ListsUpTo(_, _)
ListsUpTo(elems, n) ==
    IF n = 0 THEN {<<>>}
    ELSE LET shorter == ListsUpTo(elems, n - 1)
         IN  shorter \cup {Append(l, e) : l \in shorter, e \in elems}

PatUserType == <<"$", "v", "a", "l", ":", "S", "t", "r">>
PatBuiltinName == <<"$", "a", ":", "i", "n", "t">>
PatUserAndBuiltin == <<"$", "a", ":", "i", "n", "t", "|", "$", "b", ":", "S", "t", "r">>
PatUserThenFloat == <<"$", "a", ":", "S", "t", "r", "|", "$", "b", ":", "f", "l", "o", "a", "t">>

TypePatterns == {PatUserType, PatBuiltinName, PatUserAndBuiltin, PatUserThenFloat}

InitTypes ==
    /\ line_pattern \in TypePatterns
    /\ sep \in GlobalSeps
    /\ data_types \in ListsUpTo(Classes, MaxTypes)
    /\ tokens = <<>>
    /\ separators = <<>>
    /\ created_ids = {}
    /\ pc = "new"
    /\ line = <<>>
    /\ out = NotCalled
    /\ prev_out = NotCalled
    /\ calls = 0
    /\ NoFile
    /\ Idle

NextTypes == Construct

SpecTypes == InitTypes /\ [][NextTypes]_vars

----------------------------------------------------------------------------
(* FileParser.  The file is the sequence of the lines that iterating the   *)
(* open file yields: every line ends with a newline, the last one may not. *)
(* pos counts the lines read so far.  A pull is a call of __next__; its    *)
(* outcome is kept with the number of the line it handed to the decoder.   *)

\* the value None of an optional str argument; no text is equal to it
None == <<"None">>

\* str.startswith(prefix)
StartsWith(s, prefix) ==
    Len(s) >= Len(prefix) /\ SubSeq(s, 1, Len(prefix)) = prefix

\* str.split(sep) for a separator of one character
RECURSIVE Split(_, _)
Split(s, c) ==
    LET j == ScanTo(s, 0, {c})
    IN  IF j < Len(s)
        THEN <<Slice(s, 0, j)>> \o Split(Slice(s, j + 1, Len(s)), c)
        ELSE <<s>>

StopIteration == "StopIteration"

\* FileParser._get_comments with p lines read and comments cs: the line it
\* returns, or StopIteration when next(self._file) finds the file exhausted
RECURSIVE _get_comments(_, _, _, _)
_get_comments(f, comment_char, p, cs) ==
    IF p >= Len(f)
    THEN [raised |-> StopIteration, line |-> <<>>, pos |-> p, comments |-> cs]
    ELSE LET text == RStrip(At(f, p), {"\r", "\n"})
         IN  IF text # <<>> /\ comment_char # None /\ StartsWith(text, comment_char)
             THEN _get_comments(f, comment_char, p + 1, Append(cs, text))
             ELSE [raised |-> "none", line |-> text, pos |-> p + 1, comments |-> cs]

\* the FileParser of the current state
FileSelf == [pos |-> pos, _comments |-> _comments, _size |-> _size,
             pulls |-> pulls, _file |-> _file]

\* if isinstance(self._file, str): self._file = open(self._file, "r")
Opened(fself) == [fself EXCEPT !._file = "open"]

\* Variant of Exhausted that opens the file anew at the end of the stream.
ExhaustedRewinding(fself, got) ==
    [fself EXCEPT !.pos = 0,
                  !._comments = got.comments,
                  !.pulls = Append(@, [raised |-> got.raised,
                                       ret |-> EmptyDict, at |-> 0])]

\* the end of __next__ when _get_comments raised StopIteration
Exhausted(fself, got) ==
    [fself EXCEPT !.pos = got.pos,
                  !._comments = got.comments,
                  !.pulls = Append(@, [raised |-> got.raised,
                                       ret |-> EmptyDict, at |-> 0])]

\* Variant of Counted that leaves the line in the file when the decoder
\* raises.
CountedKeepingLine(fself, got, decoded) ==
    [fself EXCEPT !.pos = IF decoded.raised = "none" THEN got.pos ELSE got.pos - 1,
                  !._comments = got.comments,
                  !._size = @ + 1,
                  !.pulls = Append(@, [raised |-> decoded.raised,
                                       ret |-> decoded.ret,
                                       at |-> got.pos])]

\* the end of __next__ when _get_comments returned a line: the count goes
\* up, then the line is decoded
Counted(fself, got, decoded) ==
    [fself EXCEPT !.pos = got.pos,
                  !._comments = got.comments,
                  !._size = @ + 1,
                  !.pulls = Append(@, [raised |-> decoded.raised,
                                       ret |-> decoded.ret,
                                       at |-> got.pos])]

\* __next__ after its call of _get_comments
AfterComments(fself, got) ==
    IF got.raised # "none"
    THEN Exhausted(fself, got)
    ELSE Counted(fself, got, parse(Self, got.line))

\* FileParser.__next__: the FileParser after the call, its outcome appended
\* to pulls
__next__(fself) ==
    AfterComments(Opened(fself),
                  _get_comments(file, comment, fself.pos, fself._comments))

LastPull(fself) == fself.pulls[Len(fself.pulls)]

\* out[key].append(value) for every item of a record
AppendItems(cols, record) ==
    [key \in DOMAIN cols \cup DOMAIN record |->
        IF key \notin DOMAIN record THEN cols[key]
        ELSE IF key \notin DOMAIN cols THEN <<record[key]>>
        ELSE Append(cols[key], record[key])]

\* the for loop of FileParser.collect: the FileParser after it and what
\* collect returns or raises
RECURSIVE CollectLoop(_, _)
CollectStep(after, pulled, cols) ==
    IF pulled.raised = StopIteration
    THEN [fself |-> after, raised |-> "none", ret |-> cols]
    ELSE IF pulled.raised # "none"
    THEN [fself |-> after, raised |-> pulled.raised, ret |-> EmptyDict]
    ELSE CollectLoop(after, AppendItems(cols, pulled.ret))

PulledInto(after, cols) == CollectStep(after, LastPull(after), cols)

CollectLoop(fself, cols) == PulledInto(__next__(fself), cols)

\* FileParser.collect
collect(fself) == CollectLoop(fself, EmptyDict)

(* Inputs *)

FileBodies == {<<"1">>, <<"1", ",", "2">>, <<"#">>, <<>>}

\* the lines of a file with these line bodies, every line ended by a newline
Terminated(bodies) == [k \in DOMAIN bodies |-> Append(bodies[k], "\n")]

\* the same file without the newline at its end
Unterminated(bodies) ==
    [k \in DOMAIN bodies |->
        IF k = Len(bodies) THEN bodies[k] ELSE Append(bodies[k], "\n")]

Files ==
    LET contents == ListsUpTo(FileBodies, MaxFileLines)
    IN  {Terminated(bs) : bs \in contents}
        \cup {Unterminated(bs) : bs \in {c \in contents : c # <<>> /\ c[Len(c)] # <<>>}}

PatFileInt == <<"$", "a", ":", "i", "n", "t">>
PatFileStr == <<"$", "a", ":", "s", "t", "r">>
PatFileIntInt == <<"$", "a", ":", "i", "n", "t", "|", "$", "b", ":", "i", "n", "t">>
PatFileStrStr == <<"$", "a", ":", "s", "t", "r", "|", "$", "b", ":", "s", "t", "r">>

FilePatterns == {PatFileInt, PatFileStr, PatFileIntInt, PatFileStrStr, PatInvalidType}

InitFile ==
    /\ line_pattern \in FilePatterns
    /\ sep = ","
    /\ data_types = <<>>
    /\ tokens = <<>>
    /\ separators = <<>>
    /\ created_ids = {}
    /\ pc = "new"
    /\ line = <<>>
    /\ out = NotCalled
    /\ prev_out = NotCalled
    /\ calls = 0
    /\ file \in Files
    /\ has_header \in BOOLEAN
    /\ comment \in {<<"#">>, None}
    /\ pos = 0
    /\ _comments = <<>>
    /\ _header = <<>>
    /\ _size = 0
    /\ pulls = <<>>
    /\ collected = NotCalled
    /\ _file = "path"
    /\ init_raised = "none"
    /\ iters = 0
    /\ Idle

\* FileParser.__init__(file, line_pattern, has_header, sep, comment) for a
\* file that exists; _header = <<>> stands for None, which no split returns
FileConstruct ==
    /\ pc = "new"
    /\ LET opened == has_header
           exhausted == opened /\ file = <<>>
           built == _parse_line_pattern(NewParser(data_types), line_pattern, sep)
       IN  /\ _header' = IF opened /\ ~exhausted
                         THEN Split(RStrip(At(file, 0), {"\r", "\n"}), sep)
                         ELSE <<>>
           /\ pos' = IF opened /\ ~exhausted THEN 1 ELSE 0
           /\ tokens' = IF exhausted THEN tokens ELSE built.tokens
           /\ separators' = IF exhausted THEN separators ELSE built.separators
           /\ created_ids' = IF exhausted THEN created_ids ELSE built.created_ids
           /\ pc' = IF ~exhausted /\ built.raised = "none"
                    THEN "ready" ELSE "failed"
           /\ _file' = IF opened THEN "open" ELSE "path"
           /\ init_raised' = IF exhausted THEN StopIteration ELSE built.raised
    /\ _comments' = <<>>
    /\ _size' = 0
    /\ UNCHANGED rest_vars
    /\ UNCHANGED <<line_pattern, sep, data_types, line, out, prev_out, calls,
                   file, has_header, comment, pulls, collected, iters>>

\* the FileParser becomes fself
Becomes(fself) ==
    /\ pos' = fself.pos
    /\ _comments' = fself._comments
    /\ _size' = fself._size
    /\ pulls' = fself.pulls
    /\ _file' = fself._file

\* next(parser)
Pull ==
    /\ pc = "ready"
    /\ Len(pulls) < MaxPulls
    /\ Becomes(__next__(FileSelf))
    /\ UNCHANGED rest_vars
    /\ UNCHANGED <<line_pattern, sep, data_types, tokens, separators,
                   created_ids, pc, line, out, prev_out, calls,
                   file, has_header, comment, _header, collected,
                   init_raised, iters>>

\* collect leaves the FileParser as done.fself and returns or raises
Returns(done) ==
    /\ Becomes(done.fself)
    /\ collected' = [raised |-> done.raised, ret |-> done.ret,
                     after |-> Len(pulls)]

\* parser.collect()
Collect ==
    /\ pc = "ready"
    /\ collected = NotCalled
    /\ Returns(collect(FileSelf))
    /\ UNCHANGED rest_vars
    /\ UNCHANGED <<line_pattern, sep, data_types, tokens, separators,
                   created_ids, pc, line, out, prev_out, calls,
                   file, has_header, comment, _header, init_raised, iters>>

\* iter(parser): __iter__ returns the parser itself
Iter ==
    /\ pc = "ready"
    /\ iters < MaxIters
    /\ iters' = iters + 1
    /\ UNCHANGED rest_vars
    /\ UNCHANGED <<line_pattern, sep, data_types, tokens, separators,
                   created_ids, pc, line, out, prev_out, calls,
                   file, has_header, comment, pos, _comments, _header, _size,
                   pulls, collected, _file, init_raised>>

NextFile == FileConstruct \/ Pull \/ Collect \/ Iter

SpecFile == InitFile /\ [][NextFile]_vars

----------------------------------------------------------------------------
(* parallel_iter: the decorators iter_threaded and iter_async.             *)
(* A keyword sequence is a record [key, value]; kwargs is the sequence of   *)
(* them in the order of the decorator call.  A call of the decorated        *)
(* function is the function from its keyword names to the values passed.    *)
(* A type or an exception class is its name; the value None given inside    *)
(* ignore_types is "None", whose type is "NoneType".                        *)

MaxSeqLen == 3
MaxThreads == 2

\* ignore_types left at its default
NotGiven == <<"not given">>

\* classes whose constructor cannot be called without arguments
NeedArguments == {"UnicodeDecodeError"}

Gave(type, kw) == [t |-> type, exc |-> FALSE, of |-> kw]

Threw(type, kw) == [t |-> type, exc |-> TRUE, of |-> kw]

\* the decorated functions
fn_out(kw) == Gave("tuple", kw)

fn_issue(kw) ==
    IF kw["value"] = 2 THEN Threw("ArithmeticError", kw)
    ELSE Gave("int", kw)

fn_issue_types(kw) ==
    IF kw["value"] = 2 THEN Gave("NoneType", kw)
    ELSE IF kw["value"] = 3 THEN Gave("str", kw)
    ELSE Gave("int", kw)

\* a function that decodes malformed bytes for value 2 and looks up a
\* missing key for value 3
fn_decode(kw) ==
    IF kw["value"] = 2 THEN Threw("UnicodeDecodeError", kw)
    ELSE IF kw["value"] = 3 THEN Threw("KeyError", kw)
    ELSE Gave("int", kw)

Funcs == {"out", "issue", "issue_types", "decode"}

\* what the future of the call func(**kw) holds once it is done
result(f, kw) ==
    CASE f = "out" -> fn_out(kw)
      [] f = "issue" -> fn_issue(kw)
      [] f = "issue_types" -> fn_issue_types(kw)
      [] OTHER -> fn_decode(kw)

\* _validate_input_dict(input_dict): the exception it raises, or "none"
_validate_input_dict(input_dict) ==
    IF Len(input_dict) = 0 THEN "IndexError"
    ELSE IF \E i \in 2..Len(input_dict) :
                Len(input_dict[i].value) # Len(input_dict[1].value)
         THEN "AttributeError"
         ELSE "none"

KeysOf(input_dict) == {input_dict[i].key : i \in DOMAIN input_dict}

ValueOf(input_dict, k) ==
    input_dict[CHOOSE i \in DOMAIN input_dict : input_dict[i].key = k].value

\* one round of the while loop of _build_call_list, at position p
RECURSIVE BuildLoop(_, _, _, _)
BuildLoop(input_dict, kws, p, fxn_call_list) ==
    IF \E i \in DOMAIN input_dict : p >= Len(input_dict[i].value)
    THEN [raised |-> "IndexError", list |-> fxn_call_list]
    ELSE LET arg_combo ==
                 [k \in DOMAIN kws \cup KeysOf(input_dict) |->
                     IF k \in KeysOf(input_dict)
                     THEN ValueOf(input_dict, k)[p + 1]
                     ELSE kws[k]]
             at_outer == \E i \in DOMAIN input_dict :
                             p = Len(input_dict[i].value) - 1
         IN  IF at_outer
             THEN [raised |-> "none", list |-> Append(fxn_call_list, arg_combo)]
             ELSE BuildLoop(input_dict, kws, p + 1,
                            Append(fxn_call_list, arg_combo))

\* _build_call_list(input_dict, kwargs), for an input_dict with a key
_build_call_list(input_dict, kws) == BuildLoop(input_dict, kws, 0, <<>>)

\* the type of an entry of ignore_types
TypeOfEntry(e) == IF e = "None" THEN "NoneType" ELSE e

\* iter_threaded(threads, ignore_types, **kwargs) up to the decorator
iter_threaded(th, ign, kw) ==
    IF th <= 0 THEN [raised |-> "TypeError", ignore_types |-> {}]
    ELSE IF _validate_input_dict(kw) # "none"
    THEN [raised |-> _validate_input_dict(kw), ignore_types |-> {}]
    ELSE [raised |-> "none",
          ignore_types |-> IF ign = NotGiven THEN {}
                           ELSE {TypeOfEntry(ign[i]) : i \in DOMAIN ign}]

\* iter_async(**kwargs) up to the decorator
iter_async(kw) == [raised |-> _validate_input_dict(kw), ignore_types |-> {}]

\* raise type(err) from err
Reraised(type) == IF type \in NeedArguments THEN "TypeError" ELSE type

\* Variant of LoopOrder that walks the futures in the order in which they
\* finished.
LoopOrderAsCompleted(fs, fin) == fin

\* the order in which the generator walks the futures
LoopOrder(fs, fin) == [i \in DOMAIN fs |-> i]

\* the loop over the futures from position k of the order, until it yields,
\* raises or ends
RECURSIVE Scan(_, _, _, _, _)
Scan(f, fs, order, ign, k) ==
    IF k > Len(order)
    THEN [cursor |-> k, got |-> <<>>, raised |-> StopIteration]
    ELSE IF result(f, fs[order[k]].kw).t \in ign
    THEN Scan(f, fs, order, ign, k + 1)
    ELSE IF result(f, fs[order[k]].kw).exc
    THEN [cursor |-> k, got |-> <<>>,
          raised |-> Reraised(result(f, fs[order[k]].kw).t)]
    ELSE [cursor |-> k + 1, got |-> <<result(f, fs[order[k]].kw)>>,
          raised |-> "none"]

(* Inputs *)

Tens(n) == [i \in 1..n |-> 10 * i]

ValueSeqs == ListsUpTo({1, 2, 3}, MaxSeqLen)

One(s) == <<[key |-> "value", value |-> s]>>

Two(s, n) == <<[key |-> "value", value |-> s],
               [key |-> "end_pos", value |-> Tens(n)]>>

KwargSets ==
    {<<>>} \cup {One(s) : s \in ValueSeqs}
           \cup {Two(s, Len(s)) : s \in ValueSeqs}
           \cup {Two(s, Len(s) + 1) : s \in ValueSeqs}

IgnoreArgs == {NotGiven, <<"ArithmeticError">>, <<"None", "str">>,
               <<"UnicodeDecodeError">>, <<"int">>}

EmptyKw == [k \in {} |-> 0]

CallKws == {EmptyKw, [k \in {"value", "extra"} |-> 3]}

\* a state in which no TokenParser is involved
NoParser ==
    /\ line_pattern = <<>>
    /\ sep = ","
    /\ data_types = <<>>
    /\ tokens = <<>>
    /\ separators = <<>>
    /\ created_ids = {}
    /\ pc = "idle"
    /\ line = <<>>
    /\ out = NotCalled
    /\ prev_out = NotCalled
    /\ calls = 0

InitIter ==
    /\ NoParser
    /\ NoFile
    /\ NoTypeChecker
    /\ NoStr
    /\ decorator = "iter_threaded"
    /\ threads = 1
    /\ ignore_types = {}
    /\ kwargs = <<>>
    /\ func = "out"
    /\ gen = "new"
    /\ futures = <<>>
    /\ finished = <<>>
    /\ cursor = 1
    /\ yielded = <<>>
    /\ iter_raised = "none"

Decorated(made) ==
    /\ ignore_types' = made.ignore_types
    /\ iter_raised' = made.raised
    /\ gen' = IF made.raised = "none" THEN "decorated" ELSE "failed"

\* @iter_threaded(threads, ignore_types, **kwargs) on a function
DecorateThreaded ==
    /\ gen = "new"
    /\ \E th \in 0..MaxThreads, ign \in IgnoreArgs, kw \in KwargSets, f \in Funcs :
          /\ decorator' = "iter_threaded"
          /\ threads' = th
          /\ kwargs' = kw
          /\ func' = f
          /\ Decorated(iter_threaded(th, ign, kw))
    /\ UNCHANGED <<futures, finished, cursor, yielded>>
    /\ UNCHANGED <<line_pattern, sep, data_types, tokens, separators,
                   created_ids, pc, line, out, prev_out, calls, file_vars,
                   tc_vars, str_vars>>

\* @iter_async(**kwargs) on a function
DecorateAsync ==
    /\ gen = "new"
    /\ \E kw \in KwargSets, f \in Funcs :
          /\ decorator' = "iter_async"
          /\ kwargs' = kw
          /\ func' = f
          /\ Decorated(iter_async(kw))
    /\ UNCHANGED <<threads, futures, finished, cursor, yielded>>
    /\ UNCHANGED <<line_pattern, sep, data_types, tokens, separators,
                   created_ids, pc, line, out, prev_out, calls, file_vars,
                   tc_vars, str_vars>>

Submitted(built) ==
    /\ futures' = [i \in DOMAIN built.list |->
                      [kw |-> built.list[i], state |-> "pending"]]
    /\ iter_raised' = built.raised
    /\ gen' = IF built.raised = "none" THEN "running" ELSE "closed"

\* the first next() on the generator of the decorated function, up to
\* concurrent.futures.wait: the call list is built and every call submitted
Begin ==
    /\ gen = "decorated"
    /\ decorator = "iter_threaded"
    /\ \E kws \in CallKws : Submitted(_build_call_list(kwargs, kws))
    /\ UNCHANGED <<decorator, threads, ignore_types, kwargs, func, finished,
                   cursor, yielded>>
    /\ UNCHANGED <<line_pattern, sep, data_types, tokens, separators,
                   created_ids, pc, line, out, prev_out, calls, file_vars,
                   tc_vars, str_vars>>

Running == {i \in DOMAIN futures : futures[i].state = "running"}

\* a worker thread of the pool takes the next call of the queue
Start ==
    /\ gen = "running"
    /\ Cardinality(Running) < threads
    /\ \E i \in DOMAIN futures :
          /\ futures[i].state = "pending"
          /\ \A j \in 1..(i - 1) : futures[j].state # "pending"
          /\ futures' = [futures EXCEPT ![i].state = "running"]
    /\ UNCHANGED <<decorator, threads, ignore_types, kwargs, func, gen,
                   finished, cursor, yielded, iter_raised>>
    /\ UNCHANGED <<line_pattern, sep, data_types, tokens, separators,
                   created_ids, pc, line, out, prev_out, calls, file_vars,
                   tc_vars, str_vars>>

\* a running call returns or raises
Finish ==
    /\ gen = "running"
    /\ \E i \in Running :
          /\ futures' = [futures EXCEPT ![i].state = "done"]
          /\ finished' = Append(finished, i)
    /\ UNCHANGED <<decorator, threads, ignore_types, kwargs, func, gen,
                   cursor, yielded, iter_raised>>
    /\ UNCHANGED <<line_pattern, sep, data_types, tokens, separators,
                   created_ids, pc, line, out, prev_out, calls, file_vars,
                   tc_vars, str_vars>>

\* Variant of AllDone that waits for the first call only.
FirstDone == futures # <<>> => futures[1].state = "done"

\* concurrent.futures.wait(output_data_futures) returns
AllDone == \A i \in DOMAIN futures : futures[i].state = "done"

Resumed(step) ==
    /\ cursor' = step.cursor
    /\ yielded' = yielded \o step.got
    /\ iter_raised' = step.raised
    /\ gen' = IF step.raised = "none" THEN "suspended" ELSE "closed"

\* the generator runs on, after wait returned or after a yield, to its next
\* yield, to the exception it raises or to its end
Resume ==
    /\ gen \in {"running", "suspended"}
    /\ AllDone
    /\ Resumed(Scan(func, futures, LoopOrder(futures, finished),
                    ignore_types, cursor))
    /\ UNCHANGED <<decorator, threads, ignore_types, kwargs, func, futures,
                   finished>>
    /\ UNCHANGED <<line_pattern, sep, data_types, tokens, separators,
                   created_ids, pc, line, out, prev_out, calls, file_vars,
                   tc_vars, str_vars>>

NextIter == DecorateThreaded \/ DecorateAsync \/ Begin \/ Start \/ Finish \/ Resume

SpecIter == InitIter /\ [][NextIter]_vars

----------------------------------------------------------------------------
(* type_checking: the decorator TypeChecker.check_types and its cache.      *)
(* A value is the name of its class; an annotation is a record that tells   *)
(* whether it has __args__ and holds its classes.  The cache key of a call  *)
(* is id() of a list that is dropped at once, that is, an address the       *)
(* allocator is free to hand out again: any of Ids on every call.           *)

MaxIds == 2
MaxCacheSize == 2
MaxDepth == 2

Ids == 1..MaxIds

\* the classes a value of each class is an instance of
Mro(cls) ==
    CASE cls = "Val" -> {"Val", "str", "object"}
      [] OTHER -> {cls, "object"}

isinstance(value, cls) == cls \in Mro(value)

Plain(cls) == [has_args |-> FALSE, cls |-> cls, args |-> {}]

Union(classes) == [has_args |-> TRUE, cls |-> "Union", args |-> classes]

\* TypeChecker._check_union(arg_type, passed_value)
_check_union(arg_type, passed_value) ==
    \E avail_arg_type \in arg_type.args : isinstance(passed_value, avail_arg_type)

\* TypeChecker._validate_type(arg_type, output, err_string): what it raises
_validate_type(arg_type, output) ==
    IF arg_type.has_args
    THEN IF ~_check_union(arg_type, output) THEN "TypeError" ELSE "none"
    ELSE IF ~isinstance(output, arg_type.cls) THEN "TypeError" ELSE "none"

\* get_type_hints(func) of the decorated functions
\*   def fxn(value: int)
\*   def simple(val: Union[str, Str]) -> str
specified_types(f) ==
    CASE f = "fxn" -> [k \in {"value"} |-> Plain("int")]
      [] OTHER -> [k \in {"val", "return"} |->
                      IF k = "val" THEN Union({"str", "Str"}) ELSE Plain("str")]

\* inspect.signature(func).bind(value).arguments
passed_args(f, value) ==
    IF f = "fxn" THEN [k \in {"value"} |-> value] ELSE [k \in {"val"} |-> value]

\* the loop over specified_types of check_types: what it raises
check_arguments(f, passed) ==
    IF \E arg_name \in DOMAIN specified_types(f) :
           /\ arg_name \in DOMAIN passed
           /\ _validate_type(specified_types(f)[arg_name], passed[arg_name]) # "none"
    THEN "TypeError" ELSE "none"

\* Variant of check_output that trusts a call found in the cache.
check_output_unless_cached(frame, output) ==
    IF "return" \in DOMAIN specified_types(frame.func) /\ ~frame.hit
    THEN _validate_type(specified_types(frame.func)["return"], output)
    ELSE "none"

\* the validation of the output in check_types: what it raises
check_output(frame, output) ==
    IF "return" \in DOMAIN specified_types(frame.func)
    THEN _validate_type(specified_types(frame.func)["return"], output)
    ELSE "none"

\* TypeChecker.get_current_cache_size()
get_current_cache_size(cache) == Cardinality(cache)

\* TypeChecker._clear_if_surpassed_max_size(): the cache it leaves
_clear_if_surpassed_max_size(cache, max_size) ==
    IF get_current_cache_size(cache) >= max_size THEN {} ELSE cache

(* Inputs *)

TcFuncs == {"fxn", "simple"}

TcValues == {"int", "str", "Str", "Val"}

\* arguments of set_max_cache_size: ints, and a value that is not an int
SizeArgs == {[int |-> TRUE, n |-> n] : n \in (-1)..MaxCacheSize}
            \cup {[int |-> FALSE, n |-> 0]}

InitTC ==
    /\ NoParser
    /\ NoFile
    /\ NoIter
    /\ NoTypeChecker
    /\ NoStr

Done(op, raised, valid, hit) ==
    tc_out' = [op |-> op, raised |-> raised, valid |-> valid, hit |-> hit]

\* fxn(*args, **kwargs) of check_types up to the call of func: the cache is
\* cleared when full, the arguments are checked unless the key of the call
\* is in the cache, and the function body starts
Entered(f, value, cache_add_id, cache) ==
    /\ _cache' = cache
    /\ IF cache_add_id \notin cache /\ check_arguments(f, passed_args(f, value)) # "none"
       THEN /\ frames' = frames
            /\ Done("call", "TypeError", FALSE, FALSE)
       ELSE /\ frames' = Append(frames,
                   [func |-> f, id |-> cache_add_id, hit |-> cache_add_id \in cache,
                    arg_ok |-> check_arguments(f, passed_args(f, value)) = "none"])
            /\ Done("call", "none",
                    check_arguments(f, passed_args(f, value)) = "none",
                    cache_add_id \in cache)

\* a decorated function is called, from outside or from the body of the
\* decorated call that is running
Enter ==
    /\ Len(frames) < MaxDepth
    /\ \E f \in TcFuncs, value \in TcValues, cache_add_id \in Ids :
          Entered(f, value, cache_add_id,
                  _clear_if_surpassed_max_size(_cache, _max_cache_size))
    /\ UNCHANGED _max_cache_size
    /\ UNCHANGED <<line_pattern, sep, data_types, tokens, separators,
                   created_ids, pc, line, out, prev_out, calls, file_vars,
                   iter_vars, str_vars>>

Top == frames[Len(frames)]

Left(frame, raised, valid) ==
    /\ frames' = SubSeq(frames, 1, Len(frames) - 1)
    /\ _cache' = IF raised = "none" THEN _cache \cup {frame.id} ELSE _cache
    /\ Done("return", raised, valid, frame.hit)

\* the body of the running call returns output: fxn of check_types from the
\* validation of the output to its return
Return ==
    /\ frames # <<>>
    /\ \E output \in TcValues :
          Left(Top, check_output(Top, output),
               "return" \in DOMAIN specified_types(Top.func)
                   => _validate_type(specified_types(Top.func)["return"], output) = "none")
    /\ UNCHANGED _max_cache_size
    /\ UNCHANGED <<line_pattern, sep, data_types, tokens, separators,
                   created_ids, pc, line, out, prev_out, calls, file_vars,
                   iter_vars, str_vars>>

\* the body of the running call raises, or lets an exception of a call it
\* made pass: fxn of check_types is left at the call of func
BodyRaises ==
    /\ frames # <<>>
    /\ frames' = SubSeq(frames, 1, Len(frames) - 1)
    /\ Done("body", "Exception", TRUE, Top.hit)
    /\ UNCHANGED <<_cache, _max_cache_size>>
    /\ UNCHANGED <<line_pattern, sep, data_types, tokens, separators,
                   created_ids, pc, line, out, prev_out, calls, file_vars,
                   iter_vars, str_vars>>

\* TypeChecker.clear_cache()
clear_cache ==
    /\ _cache' = {}
    /\ Done("clear_cache", "none", TRUE, FALSE)
    /\ UNCHANGED <<_max_cache_size, frames>>
    /\ UNCHANGED <<line_pattern, sep, data_types, tokens, separators,
                   created_ids, pc, line, out, prev_out, calls, file_vars,
                   iter_vars, str_vars>>

\* TypeChecker.set_max_cache_size(max_size)
set_max_cache_size ==
    /\ \E max_size \in SizeArgs :
          IF max_size.int /\ max_size.n > 0
          THEN /\ _max_cache_size' = max_size.n
               /\ Done("set_max_cache_size", "none", TRUE, FALSE)
          ELSE /\ _max_cache_size' = _max_cache_size
               /\ Done("set_max_cache_size", "TypeError", FALSE, FALSE)
    /\ UNCHANGED <<_cache, frames>>
    /\ UNCHANGED <<line_pattern, sep, data_types, tokens, separators,
                   created_ids, pc, line, out, prev_out, calls, file_vars,
                   iter_vars, str_vars>>

NextTC == Enter \/ Return \/ BodyRaises \/ clear_cache \/ set_max_cache_size

SpecTC == InitTC /\ [][NextTC]_vars

----------------------------------------------------------------------------
(* mutable_string: the class Str.                                          *)
(* A Str object is a place of the heap holding _data, the list of its       *)
(* elements, and _const; an element is a text, one character long when the  *)
(* list is what its name says.  An argument is a python str or the Str at   *)
(* a place of the heap, which may be the object the method is called on.    *)
(* Arguments have the annotated types, so that the type checks of the       *)
(* decorator pass.  _pos is set to 0 by __iter__ before every loop reads    *)
(* it, so it is kept inside the loops that share it.                        *)

MaxStrLen == 2
MaxObjs == 2
MaxOps == 2

PyStr(text) == [kind |-> "str", text |-> text, ref |-> 0]

StrRef(ref) == [kind |-> "Str", text |-> <<>>, ref |-> ref]

\* the characters in their order
Alphabet == <<" ", "a", "b">>

\* the elements a loop over a python str yields
Chars(text) == [k \in DOMAIN text |-> <<text[k]>>]

\* "".join(data)
RECURSIVE join(_)
join(data) == IF data = <<>> THEN <<>> ELSE Head(data) \o join(Tail(data))

\* what a loop over the argument yields when the list of no object changes
\* meanwhile
Items(h, arg) == IF arg.kind = "str" THEN Chars(arg.text) ELSE h[arg.ref]._data

\* str(string)
AsText(h, arg) == IF arg.kind = "str" THEN arg.text ELSE join(h[arg.ref]._data)

\* what a method leaves: the list of the object, what it raised, what it
\* returned
Left_(data, raised, ret) == [data |-> data, raised |-> raised, ret |-> ret]

NoneVal == [t |-> "None"]

BoolVal(b) == [t |-> "bool", b |-> b]

TextVal(s) == [t |-> "str", s |-> s]

RefVal(ref) == [t |-> "Str", ref |-> ref]

\* Str.append(value), for a value that is not the object itself
append(data, items) == Left_(data \o items, "none", NoneVal)

\* Str.reverse()
reverse(data) ==
    Left_([k \in DOMAIN data |-> data[Len(data) + 1 - k]], "none", NoneVal)

\* Str.pop()
pop(data) ==
    IF data = <<>> THEN Left_(data, "IndexError", NoneVal)
    ELSE Left_(SubSeq(data, 1, Len(data) - 1), "none", TextVal(data[Len(data)]))

\* del self._data[i] for an int i
DelIndex(data, i) ==
    IF i >= Len(data) \/ i < 0 - Len(data)
    THEN Left_(data, "IndexError", NoneVal)
    ELSE LET p == IF i < 0 THEN i + Len(data) ELSE i
         IN  Left_(SubSeq(data, 1, p) \o SubSeq(data, p + 2, Len(data)),
                   "none", NoneVal)

Min(x, y) == IF x < y THEN x ELSE y

\* self._data[a:b] = new for 0 <= a <= b
SetSliceOf(data, a, b, new) ==
    SubSeq(data, 1, Min(a, Len(data))) \o new
        \o SubSeq(data, Min(b, Len(data)) + 1, Len(data))

\* del self._data[a:b] for 0 <= a <= b
DelSlice(data, a, b) == Left_(SetSliceOf(data, a, b, <<>>), "none", NoneVal)

\* the loop `for char in string: self._data[i] = char; i += 1` of insert,
\* from position p of string; string is the object itself when alias
RECURSIVE InsertLoop(_, _, _, _, _)
InsertLoop(data, items, alias, p, i) ==
    IF p >= (IF alias THEN Len(data) ELSE Len(items))
    THEN Left_(data, "none", NoneVal)
    ELSE IF i >= Len(data) THEN Left_(data, "IndexError", NoneVal)
    ELSE InsertLoop([data EXCEPT ![i + 1] = IF alias THEN data[p + 1]
                                            ELSE items[p + 1]],
                    items, alias, p + 1, i + 1)

\* the list after the space for n elements was made at position i
Shifted(data, i, n) ==
    [k \in 1..(Len(data) + n) |->
        IF k > i + n THEN data[k - n]
        ELSE IF k <= Len(data) THEN data[k] ELSE <<>>]

\* Str.insert(i, string)
insert(data, i, items, alias) ==
    IF ~(0 <= i /\ i < Len(data)) THEN Left_(data, "AssertionError", NoneVal)
    ELSE InsertLoop(Shifted(data, i, Len(items)), items, alias, 0, i)

\* str.split() of a text: its words, split at whitespace
RECURSIVE split(_, _, _)
split(text, word, words) ==
    IF text = <<>>
    THEN IF word = <<>> THEN words ELSE Append(words, word)
    ELSE IF Head(text) = " "
    THEN split(Tail(text), <<>>, IF word = <<>> THEN words ELSE Append(words, word))
    ELSE split(Tail(text), Append(word, Head(text)), words)

\* Str.__setitem__(i, string) for a slice i = a:b
setitem_slice(data, a, b, text) ==
    Left_(SetSliceOf(data, a, b, split(text, <<>>, <<>>)), "none", NoneVal)

\* the loop over j of __setitem__ from j on, m being the end of its range;
\* string is the object itself when alias
RECURSIVE SetLoop(_, _, _, _, _, _)
SetLoop(data, items, alias, i, j, m) ==
    IF j >= m \/ j + i >= Len(data) THEN [data |-> data, pos |-> j]
    ELSE SetLoop([data EXCEPT ![j + i + 1] = IF alias THEN data[j + 1]
                                             ELSE items[j + 1]],
                 items, alias, i, j + 1, m)

\* the end of __setitem__: what of string is left at pos is appended
SetRest(looped, items, alias) ==
    LET string == IF alias THEN looped.data ELSE items
    IN  IF looped.pos < Len(string)
        THEN append(looped.data,
                    Chars(join(SubSeq(string, looped.pos + 1, Len(string)))))
        ELSE Left_(looped.data, "none", NoneVal)

\* Str.__setitem__(i, string) for an int i
setitem_int(data, i, items, alias) ==
    IF ~(0 <= i /\ i < Len(data)) THEN Left_(data, "AssertionError", NoneVal)
    ELSE SetRest(SetLoop(data, items, alias, i, 0, Min(Len(items), Len(data))),
                 items, alias)

\* the loop over zip(self, other) of __eq__ from the k-th pair on; when
\* other is the object itself both sides draw from the one position _pos
RECURSIVE EqLoop(_, _, _, _)
EqLoop(data, items, alias, k) ==
    IF alias
    THEN IF 2 * k > Len(data) THEN TRUE
         ELSE IF data[2 * k - 1] # data[2 * k] THEN FALSE
         ELSE EqLoop(data, items, alias, k + 1)
    ELSE IF k > Len(data) \/ k > Len(items) THEN TRUE
         ELSE IF data[k] # items[k] THEN FALSE
         ELSE EqLoop(data, items, alias, k + 1)

\* Str.__eq__(other)
__eq__(data, items, alias) ==
    IF Len(data) # Len(items) THEN FALSE ELSE EqLoop(data, items, alias, 1)

\* Str.__ne__(other)
__ne__(data, items, alias) == ~__eq__(data, items, alias)

\* the place of a character in the order of the characters
Rank(c) == CHOOSE r \in DOMAIN Alphabet : Alphabet[r] = c

\* s < t for two python strs
RECURSIVE TextLess(_, _)
TextLess(s, t) ==
    IF t = <<>> THEN FALSE
    ELSE IF s = <<>> THEN TRUE
    ELSE IF Head(s) # Head(t) THEN Rank(Head(s)) < Rank(Head(t))
    ELSE TextLess(Tail(s), Tail(t))

\* the loop over zip(self, other) of __lt__ from the k-th pair on
RECURSIVE LtLoop(_, _, _)
LtLoop(data, items, k) ==
    IF k > Len(data) \/ k > Len(items) THEN FALSE
    ELSE IF data[k] # items[k] THEN TextLess(data[k], items[k])
    ELSE LtLoop(data, items, k + 1)

\* Str.__lt__(other)
__lt__(data, items) ==
    IF Len(data) < Len(items) THEN TRUE
    ELSE IF Len(data) >= Len(items) THEN FALSE
    ELSE LtLoop(data, items, 1)

\* Variant of handle_const that calls the method whatever _const is.
handle_const_unchecked(obj, left) == left

\* handle_const(func): the decorated method called on obj, left being what
\* the method itself would leave
handle_const(obj, left) ==
    IF obj._const THEN Left_(obj._data, "TypeError", NoneVal) ELSE left

\* Str.__init__(string, const): the object made
__init__(items, const) == [_data |-> items, _const |-> const]

\* Variant of copy that gives the copy the const status of the original.
copy_keeping_const(obj, const) == [_data |-> obj._data, _const |-> obj._const]

\* Str.copy(const): the object returned
copy(obj, const) == [_data |-> obj._data, _const |-> const]

(* Inputs *)

StrTexts == TextsUpTo({"a", "b"}, MaxStrLen)

\* the python strs given to the methods: one character, and a word of two
\* characters after whitespace
Strings == {PyStr(<<"b">>), PyStr(<<" ", "a", "b">>)}

\* the arguments tried on the object at s: the python strs and every Str
Args(s) == Strings \cup {StrRef(r) : r \in DOMAIN heap}

\* the arguments that are not the object itself: appending an object to
\* itself runs until the memory is used up
Others(s) == Args(s) \ {StrRef(s)}

\* the arguments the object at s is compared with: the python str of its
\* own content too
Comparands(s) == Args(s) \cup {PyStr(join(heap[s]._data))}

IntOf(i) == [slice |-> FALSE, i |-> i, j |-> 0]

SliceOf(a, b) == [slice |-> TRUE, i |-> a, j |-> b]

\* the positions tried on a list of n elements: the first two, the last one
\* and the one past the end
Positions(n) == {0, 1, n - 1, n} \cap (0..n)

\* the ints tried as an index: the positions and -1
Ints(n) == Positions(n) \cup {-1}

\* the slices tried: the empty slice and the slice of one element at every
\* position, and the slice of the whole list
Slices(n) ==
    {SliceOf(a, a) : a \in Positions(n)}
        \cup {SliceOf(a, a + 1) : a \in Positions(n)} \cup {SliceOf(0, n)}

\* the indexes tried on the object at s: ints and slices
Indexes(s) ==
    {IntOf(i) : i \in Ints(Len(heap[s]._data))} \cup Slices(Len(heap[s]._data))

InitStr ==
    /\ NoParser
    /\ NoFile
    /\ NoIter
    /\ NoTypeChecker
    /\ \E text \in StrTexts, const \in BOOLEAN :
          heap = <<__init__(Chars(text), const)>>
    /\ str_out = [op |-> "__init__", self |-> 1, raised |-> "none",
                  ret |-> NoneVal]
    /\ nops = 0

OtherVarsUnchanged ==
    UNCHANGED <<line_pattern, sep, data_types, tokens, separators,
                created_ids, pc, line, out, prev_out, calls, file_vars,
                iter_vars, tc_vars>>

\* a method was called on the object at s and left its list as left.data
Called(op, s, left) ==
    /\ heap' = [heap EXCEPT ![s]._data = left.data]
    /\ str_out' = [op |-> op, self |-> s, raised |-> left.raised,
                   ret |-> left.ret]
    /\ nops' = nops + 1
    /\ OtherVarsUnchanged

\* a call on the object at s returned a new Str object
Made(op, s, obj) ==
    /\ Len(heap) < MaxObjs
    /\ heap' = Append(heap, obj)
    /\ str_out' = [op |-> op, self |-> s, raised |-> "none",
                   ret |-> RefVal(Len(heap) + 1)]
    /\ nops' = nops + 1
    /\ OtherVarsUnchanged

\* Str(string, const)
Init_(string, const) ==
    Made("__init__", Len(heap) + 1, __init__(Items(heap, string), const))

CallInit ==
    /\ nops < MaxOps
    /\ \E string \in Strings \cup {StrRef(r) : r \in DOMAIN heap},
       const \in BOOLEAN : Init_(string, const)

\* s.append(value)
Append_(s, value) ==
    Called("append", s,
           handle_const(heap[s], append(heap[s]._data, Items(heap, value))))

CallAppend ==
    /\ nops < MaxOps
    /\ \E s \in DOMAIN heap : \E value \in Others(s) : Append_(s, value)

\* s.reverse()
Reverse_(s) ==
    Called("reverse", s, handle_const(heap[s], reverse(heap[s]._data)))

CallReverse ==
    /\ nops < MaxOps
    /\ \E s \in DOMAIN heap : Reverse_(s)

\* s.extend(value)
Extend_(s, value) ==
    Called("extend", s,
           handle_const(heap[s], append(heap[s]._data, Items(heap, value))))

CallExtend ==
    /\ nops < MaxOps
    /\ \E s \in DOMAIN heap : \E value \in Others(s) : Extend_(s, value)

\* s.pop()
Pop_(s) == Called("pop", s, handle_const(heap[s], pop(heap[s]._data)))

CallPop ==
    /\ nops < MaxOps
    /\ \E s \in DOMAIN heap : Pop_(s)

\* del self._data[index]
DelAt(data, index) ==
    IF index.slice THEN DelSlice(data, index.i, index.j)
    ELSE DelIndex(data, index.i)

\* s.remove(index)
Remove_(s, index) ==
    Called("remove", s, handle_const(heap[s], DelAt(heap[s]._data, index)))

CallRemove ==
    /\ nops < MaxOps
    /\ \E s \in DOMAIN heap : \E index \in Indexes(s) : Remove_(s, index)

\* s.copy(const)
Copy_(s, const) == Made("copy", s, copy(heap[s], const))

CallCopy ==
    /\ nops < MaxOps
    /\ \E s \in DOMAIN heap, const \in BOOLEAN : Copy_(s, const)

\* s.insert(i, string)
Insert_(s, i, string) ==
    Called("insert", s,
           handle_const(heap[s],
               insert(heap[s]._data, i, Items(heap, string), string = StrRef(s))))

CallInsert ==
    /\ nops < MaxOps
    /\ \E s \in DOMAIN heap : \E i \in Ints(Len(heap[s]._data)), string \in Args(s) :
       Insert_(s, i, string)

\* s.set_const()
SetConst_(s) ==
    /\ heap' = [heap EXCEPT ![s]._const = TRUE]
    /\ str_out' = [op |-> "set_const", self |-> s, raised |-> "none",
                   ret |-> NoneVal]
    /\ nops' = nops + 1
    /\ OtherVarsUnchanged

CallSetConst ==
    /\ nops < MaxOps
    /\ \E s \in DOMAIN heap : SetConst_(s)

\* what __iadd__ returns: the object itself
ReturningSelf(left, s) ==
    IF left.raised = "none" THEN Left_(left.data, "none", RefVal(s)) ELSE left

\* s += other
IAdd_(s, other) ==
    Called("__iadd__", s,
           handle_const(heap[s],
               ReturningSelf(append(heap[s]._data, Items(heap, other)), s)))

CallIAdd ==
    /\ nops < MaxOps
    /\ \E s \in DOMAIN heap : \E other \in Others(s) : IAdd_(s, other)

\* Str.__add__(other): the object returned
__add__(h, s, other) ==
    __init__(append(h[s]._data, Items(h, other)).data, FALSE)

\* s + other
Add_(s, other) ==
    IF handle_const(heap[s], Left_(heap[s]._data, "none", NoneVal)).raised = "none"
    THEN Made("__add__", s, __add__(heap, s, other))
    ELSE Called("__add__", s,
                handle_const(heap[s], Left_(heap[s]._data, "none", NoneVal)))

CallAdd ==
    /\ nops < MaxOps
    /\ \E s \in DOMAIN heap : \E other \in Args(s) : Add_(s, other)

\* Str.__setitem__(i, string)
__setitem__(h, s, i, string) ==
    IF i.slice THEN setitem_slice(h[s]._data, i.i, i.j, AsText(h, string))
    ELSE setitem_int(h[s]._data, i.i, Items(h, string), string = StrRef(s))

\* s[i] = string
SetItem_(s, i, string) ==
    Called("__setitem__", s,
           handle_const(heap[s], __setitem__(heap, s, i, string)))

CallSetItem ==
    /\ nops < MaxOps
    /\ \E s \in DOMAIN heap : \E i \in Indexes(s), string \in Args(s) :
       SetItem_(s, i, string)

\* del s[i]
DelItem_(s, i) ==
    Called("__delitem__", s, handle_const(heap[s], DelAt(heap[s]._data, i)))

CallDelItem ==
    /\ nops < MaxOps
    /\ \E s \in DOMAIN heap : \E i \in Indexes(s) : DelItem_(s, i)

\* a comparison of the object at s returned b
Compared(op, s, b) == Called(op, s, Left_(heap[s]._data, "none", BoolVal(b)))

\* s == other
Eq_(s, other) ==
    Compared("__eq__", s,
             __eq__(heap[s]._data, Items(heap, other), other = StrRef(s)))

CallEq ==
    /\ nops < MaxOps
    /\ \E s \in DOMAIN heap : \E other \in Comparands(s) : Eq_(s, other)

\* s != other
Ne_(s, other) ==
    Compared("__ne__", s,
             __ne__(heap[s]._data, Items(heap, other), other = StrRef(s)))

CallNe ==
    /\ nops < MaxOps
    /\ \E s \in DOMAIN heap : \E other \in Comparands(s) : Ne_(s, other)

\* s < other
Lt_(s, other) ==
    Compared("__lt__", s, __lt__(heap[s]._data, Items(heap, other)))

CallLt ==
    /\ nops < MaxOps
    /\ \E s \in DOMAIN heap : \E other \in Comparands(s) : Lt_(s, other)

NextStr ==
    \/ CallInit \/ CallAppend \/ CallReverse \/ CallExtend \/ CallPop
    \/ CallRemove \/ CallCopy \/ CallInsert \/ CallSetConst \/ CallIAdd
    \/ CallAdd \/ CallSetItem \/ CallDelItem \/ CallEq \/ CallNe \/ CallLt

SpecStr == InitStr /\ [][NextStr]_vars

----------------------------------------------------------------------------
(* What a line is made of, stated without the scanning loops: the text     *)
(* left of the line terminators, the position of each declared separator,  *)
(* and the span of each field.  Positions here are 1-based.                *)

LineTerminators == {"\r", "\n"}

\* the line without its trailing terminators
Payload ==
    LET n == CHOOSE k \in 0..Len(line) :
                /\ \A q \in (k + 1)..Len(line) : line[q] \in LineTerminators
                /\ k > 0 => line[k] \notin LineTerminators
    IN  SubSeq(line, 1, n)

First(ps) == CHOOSE q \in ps : \A r \in ps : q <= r

\* first position of ch in text at or after from, -1 when there is none
FirstHit(text, from, ch) ==
    LET hits == {q \in from..Len(text) : text[q] = ch}
    IN  IF hits = {} THEN -1 ELSE First(hits)

\* positions of the first k separators of seps in text: each is the first
\* occurrence after the one before; -1 when that one or this one is missing
RECURSIVE CutSeq(_, _, _)
CutSeq(text, seps, k) ==
    IF k = 0 THEN <<>>
    ELSE LET prev == CutSeq(text, seps, k - 1)
             before == IF k = 1 THEN 0 ELSE prev[k - 1]
         IN  Append(prev, IF before < 0 THEN -1
                          ELSE FirstHit(text, before + 1, seps[k]))

Cuts == CutSeq(Payload, separators, Len(separators))

Found(cuts) == \A k \in 1..Len(cuts) : cuts[k] > 0

AllSeparatorsFound == Found(Cuts)

\* the raw text of field k: between separator k-1 and separator k, the last
\* field running to the end of the line
SpanOf(text, cuts, k) ==
    SubSeq(text, (IF k = 1 THEN 0 ELSE cuts[k - 1]) + 1,
           IF k > Len(cuts) THEN Len(text) ELSE cuts[k] - 1)

\* what each field's converter makes of its span
Conversions ==
    LET text == Payload
        cuts == Cuts
    IN  [k \in 1..Len(tokens) |->
            Convert(tokens[k].token_type, SpanOf(text, cuts, k))]

Decoded == pc = "ready" /\ calls > 0

\* fields f1..fn and separators s1..s(n-1)
Paired == Len(separators) = Len(tokens) - 1

FieldNamesOf == {tokens[k].token_name : k \in 1..Len(tokens)}

FieldOf(name) == CHOOSE k \in 1..Len(tokens) : tokens[k].token_name = name

----------------------------------------------------------------------------
(* C1 *)

FloatVal(m, e) == [t |-> "float", m |-> m, e |-> e]
IntVal(n) == [t |-> "int", n |-> n]
StrVal(s) == [t |-> "str", s |-> s]

RecordProper ==
    (<<"v", "a", "l">> :> FloatVal(1, 0)) @@
    (<<"v", "a", "l", "2">> :> IntVal(2)) @@
    (<<"v", "a", "l", "3">> :> StrVal(<<"3">>))

\* C1: when the compiled pattern has n fields and n-1 separators, every
\* separator is found in the line in order and every span is convertible,
\* parse returns the record that maps each field name to its converter
\* applied to its span, the last span being the whole rest of the line;
\* "1.0\t2\t3" decodes to {val: 1.0, val2: 2, val3: "3"}.
C1_WellFormedLineDecodes ==
    /\ (Decoded /\ Paired /\ AllSeparatorsFound)
       => LET conv == Conversions
          IN  (\A k \in 1..Len(tokens) : conv[k].raised = "none")
              => /\ out.raised = "none"
                 /\ out.ret = [name \in FieldNamesOf |-> conv[FieldOf(name)].val]
    /\ (Decoded /\ line_pattern = PatThreeFields /\ sep = "\t" /\ line = LineProper)
       => out = [raised |-> "none", ret |-> RecordProper]

C1_Witness ==
    /\ Decoded /\ Paired /\ AllSeparatorsFound
    /\ line_pattern = PatThreeFields /\ sep = "\t" /\ line = LineProper
    /\ \A k \in 1..Len(tokens) : Conversions[k].raised = "none"
    /\ out.raised = "none"

----------------------------------------------------------------------------
(* C2 *)

Markers == {EXP_START, TYPE_START, SEP, SEP_INT}

\* the k-th smallest element of a set of positions
Nth(ps, k) == CHOOSE q \in ps : Cardinality({r \in ps : r < q}) = k - 1

\* the pieces of the pattern between its field separator markers
Pieces ==
    LET bars == {q \in 1..Len(line_pattern) : line_pattern[q] = SEP}
        n == Cardinality(bars) + 1
        bar == [k \in 0..n |-> IF k = 0 THEN 0
                               ELSE IF k = n THEN Len(line_pattern) + 1
                               ELSE Nth(bars, k)]
    IN  [k \in 1..n |-> SubSeq(line_pattern, bar[k - 1] + 1, bar[k] - 1)]

ColonOf(d) == CHOOSE c \in 2..Len(d) : d[c] = TYPE_START

DeclName(d) == SubSeq(d, 2, ColonOf(d) - 1)

DeclType(d) == SubSeq(d, ColonOf(d) + 1, Len(d))

\* d reads $name:type with a registered type and no further marker
PlainDecl(d) ==
    /\ Len(d) >= 2
    /\ d[1] = EXP_START
    /\ \E c \in 2..Len(d) :
          /\ d[c] = TYPE_START
          /\ \A q \in 2..Len(d) : q # c => d[q] \notin Markers
    /\ DeclType(d) \in DOMAIN user_data_types(data_types)

PlainPieces(ds) ==
    /\ \A k \in DOMAIN ds : PlainDecl(ds[k])
    /\ \A j, k \in DOMAIN ds : j # k => DeclName(ds[j]) # DeclName(ds[k])

PlainPattern == PlainPieces(Pieces)

\* C2: a pattern of n declarations $name:type joined by |, with distinct
\* names and registered types, compiles to the n tokens (name, resolved
\* type) in pattern order and to n-1 separators that all are the global
\* separator; one declaration gives one token and no separator.
C2_PlainPatternCompiles ==
    /\ pc # "new"
       => LET ds == Pieces
              n == Len(ds)
          IN  PlainPieces(ds)
              => /\ pc = "ready"
                 /\ Len(tokens) = n
                 /\ \A k \in 1..n :
                       tokens[k] = ParsedToken(DeclName(ds[k]),
                                               user_data_types(data_types)[DeclType(ds[k])])
                 /\ separators = [k \in 1..(n - 1) |-> sep]
    /\ (pc # "new" /\ line_pattern = PatThreeFields)
       => /\ tokens = <<ParsedToken(<<"v", "a", "l">>, "float"),
                        ParsedToken(<<"v", "a", "l", "2">>, "int"),
                        ParsedToken(<<"v", "a", "l", "3">>, "str")>>
          /\ separators = <<sep, sep>>
    /\ (pc # "new" /\ line_pattern = PatOneField)
       => /\ tokens = <<ParsedToken(<<"v", "a", "l">>, "float")>>
          /\ separators = <<>>

C2_Witness ==
    /\ pc = "ready" /\ PlainPattern /\ Len(Pieces) = 3
    /\ line_pattern = PatThreeFields /\ sep = "\t"
    /\ separators = <<"\t", "\t">>

----------------------------------------------------------------------------
(* C3 *)

\* C3: decoding a line in which a declared separator is not found before
\* the end of the line fails with ParseLineFail, whatever the field types.
\* Stated for the patterns that compiled to n fields and n-1 separators, so
\* that a violation owes nothing to a separator recorded after the last field.
C3_MissingSeparatorFails ==
    (Decoded /\ Paired /\ ~AllSeparatorsFound) => out.raised = "ParseLineFail"

----------------------------------------------------------------------------
(* C4 *)

\* C4: every record parse returns has exactly the field names of the
\* compiled pattern as its keys.  Stated for the patterns that compiled to
\* n fields and n-1 separators, where every field has its place in a line.
C4_RecordComplete ==
    (Decoded /\ Paired /\ out.raised = "none") => DOMAIN out.ret = FieldNamesOf

----------------------------------------------------------------------------
(* C5 *)

\* C5: when the converter of a field fails on its span, parse raises
\* ParseLineFail and no other exception, and returns no record.
C5_ConverterFailureIsParseLineFail ==
    (/\ Decoded /\ Paired /\ AllSeparatorsFound
     /\ \E k \in 1..Len(tokens) : Conversions[k].raised # "none")
    => out.raised = "ParseLineFail"

----------------------------------------------------------------------------
(* C6 *)

LastSep == Len(separators)

\* the text after the last declared separator
Rest(text, cuts) == SubSeq(text, cuts[Len(cuts)] + 1, Len(text))

\* the line has one more occurrence of the last declared separator than
\* the pattern declares
ExtraSeparator ==
    /\ Decoded /\ Paired /\ LastSep >= 1
    /\ LET text == Payload
           cuts == Cuts
       IN  /\ Found(cuts)
           /\ \E q \in (cuts[LastSep] + 1)..Len(text) :
                 text[q] = separators[LastSep]

\* C6 as claimed: a line with more separator-delimited values than the
\* pattern has fields raises ParseLineFail.
C6_ExtraSeparatorFails ==
    ExtraSeparator => out.raised = "ParseLineFail"

\* C6 as amended: on such a line, the fields before the last being
\* convertible, the rest of the line after the last declared separator,
\* extra separator included, is what the last field's converter gets:
\* parse raises ParseLineFail exactly when that converter raises ValueError
\* on it, and returns the record with the converted rest as the last
\* field's value when the converter accepts it.
C6_ExtraSeparatorGoesToLastField ==
    ExtraSeparator
    => LET n == Len(tokens)
           conv == Conversions
           last == Convert(tokens[n].token_type, Rest(Payload, Cuts))
       IN  (\A k \in 1..(n - 1) : conv[k].raised = "none")
           => /\ out.raised = "ParseLineFail" <=> last.raised = "ValueError"
              /\ last.raised = "none"
                 => /\ out.raised = "none"
                    /\ DOMAIN out.ret = FieldNamesOf
                    /\ out.ret[tokens[n].token_name] = last.val

C6_Witness ==
    /\ ExtraSeparator
    /\ line_pattern = PatTwoFields /\ sep = "\t" /\ line = LineTypeMismatch
    /\ Conversions[1].raised = "none"
    /\ out.raised = "ParseLineFail"

----------------------------------------------------------------------------
(* C7 *)

\* C7: every accepted pattern compiles to one separator less than tokens.
C7_SeparatorCount ==
    pc = "ready" => Len(separators) = Len(tokens) - 1

----------------------------------------------------------------------------
(* C8 *)

----------------------------------------------------------------------------
(* C9 *)

\* position of the marker that ends the type name of the declaration that
\* starts at position d, 0 when the type name runs to the end of the pattern
MarkerAfter(d) ==
    LET colon == FirstHit(line_pattern, d + 1, TYPE_START)
        bar == IF colon < 0 THEN -1 ELSE FirstHit(line_pattern, colon + 1, SEP)
        quote == IF colon < 0 THEN -1
                 ELSE FirstHit(line_pattern, colon + 1, SEP_INT)
    IN  IF bar < 0 /\ quote < 0 THEN 0
        ELSE IF bar < 0 THEN quote
        ELSE IF quote < 0 THEN bar
        ELSE IF bar < quote THEN bar ELSE quote

\* for the k-th declaration of the pattern, the character that follows the
\* ' ending its type name, and "" when it does not end that way
InternalSeps ==
    LET starts == {q \in 1..Len(line_pattern) : line_pattern[q] = EXP_START}
    IN  [k \in 1..Cardinality(starts) |->
            LET m == MarkerAfter(Nth(starts, k))
            IN  IF m > 0 /\ m < Len(line_pattern) /\ line_pattern[m] = SEP_INT
                THEN line_pattern[m + 1]
                ELSE ""]

HasInternalSep(k) == k \in DOMAIN InternalSeps /\ InternalSeps[k] # ""

RecordInternalSep ==
    (<<"v", "a", "l">> :> StrVal(<<"s", "e", "p">>)) @@
    (<<"v", "a", "l", "u", "e">> :> FloatVal(1, 0)) @@
    (<<"v", "a", "l", "2">> :> StrVal(<<"s", "e", "p">>)) @@
    (<<"v", "a", "l", "u", "e", "2">> :> FloatVal(2, 0))

\* C9: a field whose type name ends with ' followed by a character has that
\* character as its separator, not the global one, and a decoded record
\* holds for that field the text up to the first occurrence of that
\* character; "$val:str'-$value:float|$val2:str'-$value2:float" compiles
\* to the separators - , global, - and decodes "sep-1.0\tsep-2.0" to
\* {val: "sep", value: 1.0, val2: "sep", value2: 2.0}.
C9_InternalSeparator ==
    /\ pc = "ready"
       => LET isep == InternalSeps
          IN  /\ \A k \in DOMAIN isep :
                    isep[k] # "" => (k <= Len(separators) /\ separators[k] = isep[k])
              /\ (Decoded /\ Paired /\ out.raised = "none")
                 => LET text == Payload
                        cuts == Cuts
                    IN  Found(cuts)
                        => \A k \in 1..Len(separators) :
                              (k \in DOMAIN isep /\ isep[k] # "")
                              => LET from == (IF k = 1 THEN 0 ELSE cuts[k - 1]) + 1
                                     stop == FirstHit(text, from, isep[k])
                                 IN  out.ret[tokens[k].token_name]
                                       = Convert(tokens[k].token_type,
                                                 SubSeq(text, from, stop - 1)).val
    /\ (pc = "ready" /\ line_pattern = PatInternalSep)
       => separators = <<"-", sep, "-">>
    /\ (Decoded /\ line_pattern = PatInternalSep /\ sep = "\t"
               /\ line = LineInternalSep)
       => out = [raised |-> "none", ret |-> RecordInternalSep]

C9_Witness ==
    /\ Decoded /\ line_pattern = PatInternalSep /\ sep = "\t"
    /\ line = LineInternalSep
    /\ HasInternalSep(1) /\ HasInternalSep(3) /\ ~HasInternalSep(2)
    /\ out.raised = "none"

----------------------------------------------------------------------------
(* C10 *)

\* C10: a pattern whose last character is the internal-separator marker is
\* rejected when it is compiled.
C10_TrailingMarkerRejected ==
    (/\ pc # "new"
     /\ Len(line_pattern) > 0
     /\ line_pattern[Len(line_pattern)] = SEP_INT)
    => pc = "failed"

----------------------------------------------------------------------------
(* The declarations of a pattern, stated without the scanning loops: one   *)
(* starts at every field-start marker; its name runs to the next type      *)
(* marker, its type name from there to the next separator marker.          *)

DeclStarts == {q \in 1..Len(line_pattern) : line_pattern[q] = EXP_START}

\* position of the type marker of the declaration starting at d, one past
\* the end of the pattern when there is none
TypeMarkerOf(d) ==
    LET colon == FirstHit(line_pattern, d + 1, TYPE_START)
    IN  IF colon < 0 THEN Len(line_pattern) + 1 ELSE colon

NameAt(d) == SubSeq(line_pattern, d + 1, TypeMarkerOf(d) - 1)

\* the type name of the declaration starting at d, empty when the
\* declaration has no type marker
TypeNameAt(d) ==
    LET from == TypeMarkerOf(d) + 1
        ends == {q \in from..Len(line_pattern) : line_pattern[q] \in {SEP, SEP_INT}}
    IN  SubSeq(line_pattern, from,
               IF ends = {} THEN Len(line_pattern) ELSE First(ends) - 1)

\* what TokenParser.__init__ makes of the pattern
Compiled == _parse_line_pattern(NewParser(data_types), line_pattern, sep)

Rejected == pc = "failed" /\ Compiled.raised = "ParsePatternFail"

----------------------------------------------------------------------------
(* C11 *)

RepeatedName ==
    \E d1, d2 \in DeclStarts : d1 # d2 /\ NameAt(d1) = NameAt(d2)

\* C11: a pattern in which two declarations have the same name, next to
\* each other or apart, is rejected with ParsePatternFail when it is
\* compiled; "$val:int|$val:float" is.
C11_DuplicateNameRejected ==
    /\ (pc # "new" /\ RepeatedName) => Rejected
    /\ (pc # "new" /\ line_pattern \in {PatRepeatedName, PatRepeatedApart})
       => Rejected

C11_Witness ==
    /\ Rejected /\ RepeatedName
    /\ line_pattern = PatRepeatedApart
    /\ \A d \in DeclStarts : TypeNameAt(d) \in DOMAIN user_data_types(data_types)

----------------------------------------------------------------------------
(* C12 *)

UnknownType ==
    \E d \in DeclStarts : TypeNameAt(d) \notin DOMAIN user_data_types(data_types)

\* C12: a pattern with a declaration whose type name is not registered is
\* rejected with ParsePatternFail when it is compiled; so are a declaration
\* without type marker, whose type name is empty, and a type name followed
\* by characters that are no separator marker: "$val:vroom", "$valfloat"
\* and "$val:int^_|$val2:int" are rejected.
C12_UnknownTypeRejected ==
    /\ (pc # "new" /\ UnknownType) => Rejected
    /\ (pc # "new" /\ line_pattern \in {PatInvalidType, PatMissingTypeStart,
                                        PatInvalidSepInt})
       => Rejected

C12_Witness ==
    /\ Rejected /\ UnknownType /\ ~RepeatedName
    /\ line_pattern = PatMissingTypeStart
    /\ \A d \in DeclStarts : TypeNameAt(d) = <<>>

----------------------------------------------------------------------------
(* C13 *)

\* C13: a pattern without any field-start marker, the empty pattern
\* included, yields no field and is rejected with ParsePatternFail when it
\* is compiled; "val:float" is.
C13_NoFieldRejected ==
    /\ (pc # "new" /\ DeclStarts = {})
       => (Rejected /\ tokens = <<>>)
    /\ (pc # "new" /\ line_pattern \in {<<>>, PatMissingExpStart}) => Rejected

C13_Witness ==
    /\ Rejected /\ DeclStarts = {}
    /\ line_pattern = PatMissingExpStart

----------------------------------------------------------------------------
(* C14 *)

\* the k-th declaration of the pattern names a class of the caller
NamesCallerClass(k) ==
    /\ k <= Cardinality(DeclStarts)
    /\ TypeNameAt(Nth(DeclStarts, k)) \in DOMAIN ByName(data_types)

\* C14: a declaration whose type name is the name of a converter the caller
\* supplied resolves to that converter, also when a builtin has that name;
\* a caller's converter with a new name is resolved by its name.
C14_CallerConverterResolves ==
    pc = "ready"
    => \A k \in 1..Len(tokens) :
          NamesCallerClass(k)
          => tokens[k].token_type
               = ByName(data_types)[TypeNameAt(Nth(DeclStarts, k))]

\* a caller's converter with a new name is resolved, the builtin int stays
\* the builtin
C14_NewNameResolves ==
    (pc # "new" /\ line_pattern = PatUserAndBuiltin /\ data_types = <<ClassInt, ClassStr>>)
    => /\ pc = "ready"
       /\ tokens = <<ParsedToken(<<"a">>, "int"), ParsedToken(<<"b">>, "test.Str")>>

----------------------------------------------------------------------------
(* What a file is made of, stated without the reading loop: which lines    *)
(* are comments, which line is the header, and which lines are data.       *)

\* a line without its trailing line terminators
Chomp(l) ==
    LET n == CHOOSE k \in 0..Len(l) :
                /\ \A q \in (k + 1)..Len(l) : l[q] \in LineTerminators
                /\ k > 0 => l[k] \notin LineTerminators
    IN  SubSeq(l, 1, n)

CommentLines ==
    IF comment = None THEN {}
    ELSE {k \in 1..Len(file) :
            LET body == Chomp(file[k])
            IN  /\ Len(body) >= Len(comment)
                /\ \A q \in 1..Len(comment) : body[q] = comment[q]}

NonCommentLines == (1..Len(file)) \ CommentLines

\* the line that holds the header: the first one that is not a comment
HeaderLine == IF has_header /\ NonCommentLines # {} THEN First(NonCommentLines) ELSE 0

DataLines == NonCommentLines \ {HeaderLine}

\* the elements of a set of line numbers in file order
Ordered(ks) == [i \in 1..Cardinality(ks) |-> Nth(ks, i)]

\* the pulls that returned a record, in the order they were made
RECURSIVE Returning(_)
Returning(ps) ==
    IF ps = <<>> THEN <<>>
    ELSE LET before == Returning(SubSeq(ps, 1, Len(ps) - 1))
         IN  IF ps[Len(ps)].raised = "none"
             THEN Append(before, ps[Len(ps)]) ELSE before

\* what the decoder makes of line k of the file
DecodeOf(k) == parse(Self, file[k])

----------------------------------------------------------------------------
(* C15 *)

NoPullFailed ==
    \A j \in 1..Len(pulls) : pulls[j].raised \in {"none", StopIteration}

\* C15: the k-th pull that returns a record returns the decode of the k-th
\* line that is neither the header nor a comment, and the comment buffer
\* holds, in file order, every comment line read so far; no comment line is
\* handed to the decoder.  Stated for the runs in which no pull raised a
\* decode error, so that the k-th returned record is that of the k-th pull.
C15_RecordsFollowDataLines ==
    (pc = "ready" /\ NoPullFailed)
    => LET recs == Returning(pulls)
           data == Ordered(DataLines)
       IN  /\ Len(recs) <= Len(data)
           /\ \A k \in 1..Len(recs) :
                 /\ recs[k].at = data[k]
                 /\ recs[k].ret = DecodeOf(data[k]).ret
           /\ _comments
                = [i \in 1..Cardinality({c \in CommentLines : c <= pos}) |->
                      Chomp(file[Nth(CommentLines, i)])]

----------------------------------------------------------------------------
(* C16 *)

\* C16: when a header is asked for, the header the constructor stores is
\* the first line that is not a comment, split by the separator, and no
\* pull hands that line to the decoder.
C16_HeaderIsFirstNonComment ==
    (pc = "ready" /\ has_header /\ HeaderLine > 0)
    => /\ _header = Split(Chomp(file[HeaderLine]), sep)
       /\ \A j \in 1..Len(pulls) : pulls[j].at # HeaderLine

----------------------------------------------------------------------------
(* C17 *)

\* the comment lines before the first line that is not a comment
LeadingComments ==
    {c \in CommentLines : \A k \in NonCommentLines : c < k}

\* C17: right after construction, before any pull, the comment buffer
\* holds every comment line that precedes the first non-comment line, in
\* file order.
C17_LeadingCommentsBuffered ==
    (pc = "ready" /\ pulls = <<>>)
    => _comments = [i \in 1..Cardinality(LeadingComments) |->
                       Chomp(file[Nth(LeadingComments, i)])]

----------------------------------------------------------------------------
(* C18 *)

\* C18: len(parser) is at all times the number of pulls that returned a
\* record; a pull that raises a decode error or signals the end of the
\* stream leaves it as it was.
C18_SizeCountsRecords ==
    pc = "ready"
    => _size = Cardinality({j \in 1..Len(pulls) : pulls[j].raised = "none"})

----------------------------------------------------------------------------
(* C19 *)

\* collect() was the first call on the parser and returned
Collected == pc = "ready" /\ collected.raised = "none" /\ collected.after = 0

\* C19: collect() on a file with N data lines, header and comment lines
\* not counted, returns a mapping with the field names as keys in which
\* every list has N entries, entry i being the field's value in the i-th
\* data line.  Stated for N >= 1.
C19_CollectColumns ==
    (Collected /\ DataLines # {})
    => LET data == Ordered(DataLines)
       IN  /\ DOMAIN collected.ret = FieldNamesOf
           /\ \A name \in FieldNamesOf :
                 /\ Len(collected.ret[name]) = Len(data)
                 /\ \A i \in 1..Len(data) :
                       LET rec == DecodeOf(data[i])
                       IN  /\ rec.raised = "none"
                           /\ name \in DOMAIN rec.ret
                           /\ collected.ret[name][i] = rec.ret[name]

----------------------------------------------------------------------------
(* C20 *)

\* the non-comment lines after line k
LaterLines(k) == {n \in NonCommentLines : n > k}

\* C20: a pull raises ParseLineFail exactly when the line it read is one
\* the decoder rejects, and the pull after it is given the next non-comment
\* line of the file, or finds the end of the file when there is none: no
\* line is skipped and none is read twice.
C20_DecodeErrorKeepsStream ==
    pc = "ready"
    => \A j \in 1..Len(pulls) :
          /\ pulls[j].at > 0
             => (pulls[j].raised = "ParseLineFail"
                   <=> DecodeOf(pulls[j].at).raised = "ParseLineFail")
          /\ (pulls[j].raised = "ParseLineFail" /\ j < Len(pulls))
             => LET later == LaterLines(pulls[j].at)
                IN  IF later = {}
                    THEN pulls[j + 1].raised = StopIteration
                    ELSE /\ pulls[j + 1].at = First(later)
                         /\ pulls[j + 1].raised = DecodeOf(First(later)).raised
                         /\ pulls[j + 1].ret = DecodeOf(First(later)).ret

C20_Witness ==
    /\ pc = "ready" /\ Len(pulls) >= 2
    /\ pulls[1].raised = "ParseLineFail"
    /\ pulls[2].raised = "none"
    /\ pulls[2].at = pulls[1].at + 2
    /\ pulls[1].at + 1 \in CommentLines

----------------------------------------------------------------------------
(* C21 *)

EndSignalled(j) == pulls[j].raised = StopIteration

\* C21: once a pull has signalled the end of the stream, every later pull
\* signals it too and returns no record; the file is only read forward, and
\* asking for the iterator leaves the place in the file where it was.
C21_EndOfStreamStays ==
    /\ [](pc = "ready"
          => \A j, k \in 1..Len(pulls) :
                (j < k /\ EndSignalled(j))
                => (EndSignalled(k) /\ pulls[k].ret = EmptyDict))
    /\ [][(pc = "ready" /\ pc' = "ready") => pos' >= pos]_vars
    /\ [][iters' # iters
            => (pos' = pos /\ pulls' = pulls /\ _file' = _file)]_vars

C21_Witness ==
    /\ pc = "ready" /\ Len(pulls) >= 3 /\ iters > 0
    /\ pulls[1].raised = "none"
    /\ EndSignalled(2) /\ EndSignalled(3)
    /\ pos = Len(file)

----------------------------------------------------------------------------
(* C22 *)

StreamEnded == \E j \in 1..Len(pulls) : EndSignalled(j)

\* C22: no handle the parser opened stays open after the end of the stream
\* was signalled or after collect() returned.  Stated for a parser that is
\* still referenced; the handle a failed construction leaves behind is
\* closed whenever the garbage collector gets to it.
C22_HandleReleased ==
    (\/ pc = "ready" /\ StreamEnded
     \/ pc = "ready" /\ collected.raised = "none")
    => _file # "open"

----------------------------------------------------------------------------
(* C23 *)

\* C23 as claimed: an invalid pattern makes the constructor raise
\* ParsePatternFail, no FileParser comes out of it, and no pull and no
\* collect raises a pattern error.
C23_PatternErrorsAtConstruction ==
    /\ (pc # "new" /\ Compiled.raised = "ParsePatternFail")
       => (pc = "failed" /\ init_raised = "ParsePatternFail")
    /\ \A j \in 1..Len(pulls) : pulls[j].raised # "ParsePatternFail"
    /\ collected.raised # "ParsePatternFail"

----------------------------------------------------------------------------
(* parallel_iter, reference definitions *)

\* the call built from element i of every keyword sequence carries, under
\* each key, element i of the sequence of that key
BuiltFrom(kw, i) ==
    \A j \in DOMAIN kwargs :
        /\ kwargs[j].key \in DOMAIN kw
        /\ i \in DOMAIN kwargs[j].value
        /\ kw[kwargs[j].key] = kwargs[j].value[i]

\* the outcomes of the calls, in the order of the input sequences
Outcomes == [i \in DOMAIN futures |-> result(func, futures[i].kw)]

\* whether s is t with some of its elements left out
RECURSIVE IsSubSeq(_, _)
IsSubSeq(s, t) ==
    IF s = <<>> THEN TRUE
    ELSE IF t = <<>> THEN FALSE
    ELSE IF Head(s) = Head(t) THEN IsSubSeq(Tail(s), Tail(t))
    ELSE IsSubSeq(s, Tail(t))

Iterating == decorator = "iter_threaded" /\ gen \in {"running", "suspended", "closed"}

Exhausted24 == gen = "closed" /\ iter_raised = StopIteration

\* C24: a function decorated with iter_threaded yields its results in the
\* order of the input sequences, for every thread count >= 1 and every order
\* in which the worker threads finish: call i is built from element i of
\* every keyword sequence, the yielded results are outcomes of the calls in
\* the order of the calls, and when nothing is filtered the i-th yielded
\* result is the result of call i, all of them once the iteration has ended.
C24_ResultsInInputOrder ==
    Iterating =>
        /\ \A i \in DOMAIN futures : BuiltFrom(futures[i].kw, i)
        /\ IsSubSeq(yielded, Outcomes)
        /\ ignore_types = {} =>
              /\ Len(yielded) <= Len(futures)
              /\ \A i \in DOMAIN yielded : yielded[i] = Outcomes[i]
              /\ Exhausted24 => Len(yielded) = Len(kwargs[1].value)

\* three calls on two threads, the second finished first, all three yielded
C24_Witness ==
    /\ Exhausted24
    /\ threads = 2
    /\ Len(kwargs) = 2
    /\ kwargs[1].value = <<1, 2, 3>>
    /\ finished = <<2, 1, 3>>
    /\ ignore_types = {}
    /\ Len(yielded) = 3
    /\ yielded[2].of["value"] = 2 /\ yielded[2].of["end_pos"] = 20

----------------------------------------------------------------------------
\* the calls that raised an exception whose type is not in ignore_types
Unignored == {i \in DOMAIN futures :
                 Outcomes[i].exc /\ Outcomes[i].t \notin ignore_types}

\* the first of them in input order, or one more than the number of calls
FirstRaise ==
    IF Unignored = {} THEN Len(futures) + 1
    ELSE CHOOSE i \in Unignored : \A j \in Unignored : i <= j

Kept(r) == ~r.exc /\ r.t \notin ignore_types

\* the results a complete iteration hands over
Expected25 == SelectSeq(SubSeq(Outcomes, 1, FirstRaise - 1), Kept)

\* C25: iter_threaded with ignore_types yields, in input order, exactly the
\* results of the calls whose result type is not in ignore_types and that
\* did not raise an exception whose type is in ignore_types, and the first
\* call in input order that raised an exception of another type makes the
\* iteration raise an exception of that same type.
C25_IgnoreTypesFilter ==
    /\ (Iterating /\ futures # <<>>) =>
           /\ Len(yielded) <= Len(Expected25)
           /\ yielded = SubSeq(Expected25, 1, Len(yielded))
    /\ (Iterating /\ futures # <<>> /\ gen = "closed") =>
           /\ yielded = Expected25
           /\ iter_raised = IF Unignored = {} THEN StopIteration
                            ELSE Outcomes[FirstRaise].t

----------------------------------------------------------------------------
\* input that is not properly formatted: no keyword sequence, or keyword
\* sequences of different lengths
Improper ==
    \/ kwargs = <<>>
    \/ \E i, j \in DOMAIN kwargs : Len(kwargs[i].value) # Len(kwargs[j].value)

\* the thread count of the decoration is accepted
ThreadsAccepted == decorator = "iter_async" \/ threads >= 1

\* C26: the input of iter_threaded and iter_async is validated at decoration
\* time and AttributeError is raised for every improperly formatted input:
\* keyword sequences of different lengths, and no keyword sequence at all.
C26_ImproperInputAttributeError ==
    (gen # "new" /\ ThreadsAccepted /\ Improper)
        => (gen = "failed" /\ iter_raised = "AttributeError")

----------------------------------------------------------------------------
(* type_checking *)

\* C27: a function decorated with check_types and called with an argument
\* that is not an instance of its annotated type, or of any member of its
\* annotated Union, raises TypeError before the function body runs, on
\* every such call, whatever calls were made before and whatever the cache
\* contains: no body runs with such an argument.
C27_BadArgumentRejected ==
    /\ \A i \in DOMAIN frames : frames[i].arg_ok
    /\ (tc_out.op = "call" /\ ~tc_out.valid) => tc_out.raised = "TypeError"

\* a decorated call leaves by returning from a function with a return
\* annotation
ReturnsAnnotated ==
    /\ Len(frames') < Len(frames)
    /\ tc_out'.op = "return"
    /\ "return" \in DOMAIN specified_types(Top.func)

\* C28: when the decorated function has a return annotation the returned
\* value is validated on every call, whether or not the call hit the cache:
\* a value that is not an instance of the annotated type raises TypeError
\* and the call is not added to the cache, any other value is returned.
C28_ReturnValidated ==
    [][ReturnsAnnotated =>
          IF tc_out'.valid THEN tc_out'.raised = "none"
          ELSE tc_out'.raised = "TypeError" /\ _cache' = _cache]_vars

\* a call that hit the cache returned a value of the wrong class
C28_Witness ==
    /\ tc_out.op = "return"
    /\ tc_out.hit
    /\ ~tc_out.valid
    /\ tc_out.raised = "TypeError"
    /\ _cache # {}

\* C29: after any sequence of decorated calls, nested ones included,
\* clear_cache and set_max_cache_size operations, get_current_cache_size()
\* never exceeds the configured maximum cache size.
C29_SizeWithinMax == get_current_cache_size(_cache) <= _max_cache_size

\* C30: set_max_cache_size(n) with n a positive int sets the maximum and,
\* if the current cache size exceeds n, clears the cache as part of that
\* call; with n not a positive int it raises TypeError and leaves the
\* maximum and the cache unchanged.
C30_SetMaxClearsWhenExceeded ==
    [][tc_out'.op = "set_max_cache_size" =>
          IF tc_out'.valid
          THEN /\ tc_out'.raised = "none"
               /\ _cache' = IF get_current_cache_size(_cache) > _max_cache_size'
                            THEN {} ELSE _cache
          ELSE /\ tc_out'.raised = "TypeError"
               /\ _max_cache_size' = _max_cache_size
               /\ _cache' = _cache]_vars

----------------------------------------------------------------------------
(* file_parser, the line terminator *)

\* l without one trailing line terminator: one CR LF pair, one LF or one CR
OneTerminatorOff(l) ==
    IF Len(l) >= 2 /\ l[Len(l) - 1] = "\r" /\ l[Len(l)] = "\n"
    THEN SubSeq(l, 1, Len(l) - 2)
    ELSE IF Len(l) >= 1 /\ l[Len(l)] \in LineTerminators
    THEN SubSeq(l, 1, Len(l) - 1)
    ELSE l

\* the pattern declares one field of type str and no separator
OneStrField ==
    Decoded /\ Len(tokens) = 1 /\ separators = <<>> /\ tokens[1].token_type = "str"

\* C38: before decoding, TokenParser.parse removes exactly one trailing line
\* terminator (one LF, one CR, or one CR LF pair) if present and nothing
\* more, so further CR or LF characters before it remain part of the last
\* field's raw value: a single str field holds the line without that one
\* terminator.
C38_OneTerminatorRemoved ==
    OneStrField =>
        /\ out.raised = "none"
        /\ out.ret = (tokens[1].token_name :> StrVal(OneTerminatorOff(line)))

----------------------------------------------------------------------------
\* the iteration has handed something to the consumer: a result, an
\* exception or its end
HandedOver == yielded # <<>> \/ (gen = "closed" /\ futures # <<>>)

\* C39: in iter_threaded no result is yielded to the consumer until every
\* submitted call has finished, returned or raised: a call that raises never
\* prevents the calls after it from running, and all calls have run even
\* when the consumer stops at the first raised exception.
C39_NothingYieldedBeforeAllFinished ==
    (Iterating /\ HandedOver) =>
        /\ \A i \in DOMAIN futures : futures[i].state = "done"
        /\ Len(finished) = Len(futures)
        /\ \A i \in DOMAIN futures : \E k \in DOMAIN finished : finished[k] = i

\* the first of three calls raised and ended the iteration, and the two
\* calls after it have run, one of them before the first
C39_Witness ==
    /\ gen = "closed"
    /\ iter_raised = "ArithmeticError"
    /\ yielded = <<>>
    /\ Len(futures) = 3
    /\ Outcomes[1].exc
    /\ finished = <<2, 1, 3>>

(* mutable_string: reference definitions *)

\* str(s) of the object at place s of a heap
Content(h, s) == join(h[s]._data)

\* the methods wrapped by handle_const that change the list: append,
\* extend, insert, pop, remove, reverse, +=, item or slice assignment,
\* item or slice deletion
Mutators ==
    {"append", "extend", "insert", "pop", "remove", "reverse", "__iadd__",
     "__setitem__", "__delitem__"}

\* C31: once a Str is const, every mutating operation on it raises
\* TypeError and leaves its content and length as they were, and no
\* operation makes it non-const again.
C31_ConstNeverModified ==
    [][\A s \in DOMAIN heap :
          heap[s]._const =>
              /\ heap'[s]._const
              /\ heap'[s]._data = heap[s]._data
              /\ (str_out'.self = s /\ str_out'.op \in Mutators)
                     => str_out'.raised = "TypeError"]_vars

\* a mutating operation was called on a const Str that holds characters
C31_Witness ==
    /\ str_out.op \in Mutators
    /\ str_out.raised = "TypeError"
    /\ heap[str_out.self]._const
    /\ Len(heap[str_out.self]._data) = 2
    /\ nops = 2

\* C32: a == b is True exactly when a and b hold the same characters in the
\* same order, also when b is a itself, and a != b is its negation.
C32_EqualityIsContentEquality ==
    [][\A s \in DOMAIN heap : \A other \in Comparands(s) :
          /\ Eq_(s, other) =>
                 str_out'.ret = BoolVal(Content(heap, s) = AsText(heap, other))
          /\ Ne_(s, other) =>
                 str_out'.ret = BoolVal(Content(heap, s) # AsText(heap, other))]_vars

\* C33: a < b is True exactly when the content of a is lexicographically
\* smaller than the content of b.
C33_LessIsLexicographic ==
    [][\A s \in DOMAIN heap : \A other \in Comparands(s) :
          Lt_(s, other) =>
              str_out'.ret = BoolVal(TextLess(Content(heap, s), AsText(heap, other)))]_vars

\* C34: after s[a:b] = t on a non-const Str, str(s) is old[:a] + t + old[b:]
\* for every t, also one that contains whitespace.
C34_SliceAssignmentReplaces ==
    [][\A s \in DOMAIN heap :
          \A i \in Slices(Len(heap[s]._data)), string \in Args(s) :
              (~heap[s]._const /\ SetItem_(s, i, string)) =>
                  /\ str_out'.raised = "none"
                  /\ Content(heap', s)
                         = SetSliceOf(Content(heap, s), i.i, i.j, AsText(heap, string))]_vars

Max(x, y) == IF x > y THEN x ELSE y

\* old[:i] + t + old[i+len(t):]
Overwritten(old, i, t) ==
    SubSeq(old, 1, i) \o t \o SubSeq(old, i + Len(t) + 1, Len(old))

\* C35: after s[i] = t on a non-const Str with 0 <= i < len(s), str(s) is
\* old[:i] + t + old[i+len(t):] and len(s) is max(len(old), i + len(t)).
C35_ItemAssignmentOverwrites ==
    [][\A s \in DOMAIN heap :
          \A i \in 0..(Len(heap[s]._data) - 1), string \in Args(s) :
              (~heap[s]._const /\ SetItem_(s, IntOf(i), string)) =>
                  /\ str_out'.raised = "none"
                  /\ Content(heap', s)
                         = Overwritten(Content(heap, s), i, AsText(heap, string))
                  /\ Len(heap'[s]._data)
                         = Max(Len(heap[s]._data), i + Len(AsText(heap, string)))]_vars

\* C36: copy(const) returns a new Str object with the content of the
\* original and the const status given, whatever the status of the
\* original; the original is left as it was, and a later operation on one
\* of the two leaves the other as it was.
C36_CopyIsIndependent ==
    [][/\ \A s \in DOMAIN heap : \A const \in BOOLEAN :
             Copy_(s, const) =>
                 /\ str_out'.ret = RefVal(Len(heap) + 1)
                 /\ Len(heap') = Len(heap) + 1
                 /\ heap'[Len(heap) + 1]._data = heap[s]._data
                 /\ heap'[Len(heap) + 1]._const = const
                 /\ \A r \in DOMAIN heap : heap'[r] = heap[r]
       /\ \A s \in DOMAIN heap :
             str_out'.self = s =>
                 \A r \in DOMAIN heap \ {s} : heap'[r] = heap[r]]_vars

\* a const Str of two characters was copied with const False: the copy is a
\* second object with the same characters that is not const, and the
\* original is still const
C36_Witness ==
    /\ str_out.op = "copy" /\ str_out.self = 1 /\ str_out.ret = RefVal(2)
    /\ Len(heap) = 2
    /\ heap[1]._const /\ ~heap[2]._const
    /\ heap[1]._data = <<<<"a">>, <<"b">>>>
    /\ heap[2]._data = heap[1]._data

\* C37: a + b returns a new Str holding the content of a followed by the
\* content of b and leaves a as it was; a += b appends b to a in place and
\* returns a itself.
C37_AddReturnsNewIAddInPlace ==
    [][\A s \in DOMAIN heap :
          /\ \A other \in Args(s) :
                Add_(s, other) =>
                    /\ str_out'.raised = "none"
                    /\ str_out'.ret = RefVal(Len(heap) + 1)
                    /\ Content(heap', Len(heap) + 1)
                           = Content(heap, s) \o AsText(heap, other)
                    /\ heap'[s] = heap[s]
          /\ \A other \in Others(s) :
                (~heap[s]._const /\ IAdd_(s, other)) =>
                    /\ str_out'.ret = RefVal(s)
                    /\ Len(heap') = Len(heap)
                    /\ Content(heap', s)
                           = Content(heap, s) \o AsText(heap, other)]_vars

\* C40: in every reachable state every element of the internal list of
\* every Str is exactly one character, so len(s) equals len(str(s)).
C40_ElementsAreSingleCharacters ==
    \A s \in DOMAIN heap :
        /\ \A k \in DOMAIN heap[s]._data : Len(heap[s]._data[k]) = 1
        /\ Len(heap[s]._data) = Len(Content(heap, s))

====
